---- MODULE Spec2Model ----
(***************************************************************************)
(* Chess rules engine of dowells-mike/chess-game: the check detection of   *)
(* src/src/chess-check-detection.tsx and the move executor (makeMove,      *)
(* handlePromotion, handleUndo) of src/src/App.tsx.                        *)
(*                                                                         *)
(* A Position is the pair <<row, col>>; the source writes it as the string *)
(* `${row},${col}` and reads it back with split(",").map(Number), which is *)
(* a bijection on the rows and columns 0..7 the engine ever formats.       *)
(* A thrown Error is modelled by a ...Throws predicate next to the         *)
(* operator that gives the value returned when nothing is thrown.          *)
(***************************************************************************)
EXTENDS Integers, Sequences, FiniteSets, TLC

\* Bound of the exploration: board changes committed and not undone.
MaxPlies == 2

\* Bound of the exploration: handlers run after New Game has been pressed.
MaxAfterNewGame == 1

\* Bound of the exploration: the setTimeout callbacks created in a behaviour.
MaxTimers == 2

\* Bound of the exploration: no further move once the captured lists hold
\* this many pieces (an en passant capture is never taken off the list again).
MaxCaptured == 2

Rows == 0..7
Pos == Rows \X Rows
Color == {"w", "b"}

Abs(x) == IF x < 0 THEN -x ELSE x

\* origin of a piece object that is not one of the objects of INITIAL_BOARD
noOrigin == <<-1, -1>>

\* Piece of types.ts; hasMoved is optional: "undefined" | "false" | "true".
\* moves is a history field, not a field of the source: the number of
\* committed, not undone moves that relocated this piece.
\* origin is the identity of the object: the square of INITIAL_BOARD whose
\* object this is, noOrigin for an object made by a spread copy or a literal.
Piece(type, color, hasMoved, moves) ==
    [type |-> type, color |-> color, hasMoved |-> hasMoved, moves |-> moves,
     origin |-> noOrigin]

\* the empty square of Board = (Piece | null)[][]
null == [type |-> "null", color |-> "null", hasMoved |-> "undefined", moves |-> 0,
         origin |-> noOrigin]

IsNull(p) == p.type = "null"

\* !piece.hasMoved is true for false and for an absent flag
Truthy(h) == h = "true"

Opp(color) == IF color = "w" THEN "b" ELSE "w"

OnBoard(r, c) == r \in Rows /\ c \in Rows

\* A Board is the tuple of its 8 rows, each the tuple of its 8 squares.
\* board[row][col] of the source, rows and columns counted from 0
Sq(board, pos) == board[pos[1] + 1][pos[2] + 1]

\* board[row][col] = piece on a copy of the board
Put(board, pos, piece) == [board EXCEPT ![pos[1] + 1][pos[2] + 1] = piece]

\* board[r]?.[c]: undefined (falsy) outside the board
At(board, r, c) == IF OnBoard(r, c) THEN Sq(board, <<r, c>>) ELSE null

\* the optional lastMove argument when it is not passed
undefinedMove == [defined |-> FALSE, from |-> <<0, 0>>, to |-> <<0, 0>>]

LastMove(from, to) == [defined |-> TRUE, from |-> from, to |-> to]

(***************************************************************************)
(* chess-check-detection.tsx                                               *)
(***************************************************************************)
simulateMove(board, from, to, piece) ==
    Put(Put(board, from, null), to, piece)

\* the search of findKing stopping one row short of the last
HasKing_lastRowSkipped(board, color) ==
    \E p \in Pos : p[1] < 7 /\ Sq(board, p).type = "k" /\ Sq(board, p).color = color

HasKing(board, color) ==
    \E p \in Pos : Sq(board, p).type = "k" /\ Sq(board, p).color = color

\* first king in row-major order; throws when there is none
findKing(board, color) ==
    LET ks == {p \in Pos : Sq(board, p).type = "k" /\ Sq(board, p).color = color}
    IN CHOOSE p \in ks : \A q \in ks : p[1] < q[1] \/ (p[1] = q[1] /\ p[2] <= q[2])

addMove(piece, board, r, c) ==
    IF OnBoard(r, c) /\ (IsNull(Sq(board, <<r, c>>)) \/ Sq(board, <<r, c>>).color # piece.color)
    THEN {<<r, c>>}
    ELSE {}

RECURSIVE Ray(_, _, _, _, _, _)
Ray(piece, board, r, c, dr, dc) ==
    IF ~OnBoard(r, c) THEN {}
    ELSE IF IsNull(Sq(board, <<r, c>>))
         THEN addMove(piece, board, r, c) \cup Ray(piece, board, r + dr, c + dc, dr, dc)
         ELSE IF Sq(board, <<r, c>>).color # piece.color
              THEN addMove(piece, board, r, c)
              ELSE {}

knightMoves == {<<-2, -1>>, <<-2, 1>>, <<-1, -2>>, <<-1, 2>>,
                <<1, -2>>, <<1, 2>>, <<2, -1>>, <<2, 1>>}

kingMoves == {<<-1, -1>>, <<-1, 0>>, <<-1, 1>>, <<0, -1>>, <<0, 1>>,
              <<1, -1>>, <<1, 0>>, <<1, 1>>}

rookDirections == {<<0, 1>>, <<0, -1>>, <<1, 0>>, <<-1, 0>>}

bishopDirections == {<<1, 1>>, <<1, -1>>, <<-1, 1>>, <<-1, -1>>}

directions_queenAsRook(type) ==
    IF type \in {"r", "q"} THEN rookDirections
    ELSE bishopDirections

directions(type) ==
    IF type = "r" THEN rookDirections
    ELSE IF type = "b" THEN bishopDirections
    ELSE rookDirections \cup bishopDirections

pawnMoves_jumping(row, col, piece, board, lastMove) ==
    LET direction == IF piece.color = "w" THEN -1 ELSE 1
        startRow == IF piece.color = "w" THEN 6 ELSE 1
        forward ==
            (IF IsNull(At(board, row + direction, col))
             THEN addMove(piece, board, row + direction, col)
             ELSE {})
            \cup
            (IF row = startRow /\ IsNull(At(board, row + direction * 2, col))
             THEN addMove(piece, board, row + direction * 2, col)
             ELSE {})
        capture(offset) ==
            LET targetRow == row + direction
                targetCol == col + offset
            IN IF OnBoard(targetRow, targetCol)
                  /\ ~IsNull(Sq(board, <<targetRow, targetCol>>))
                  /\ Sq(board, <<targetRow, targetCol>>).color # piece.color
               THEN addMove(piece, board, targetRow, targetCol)
               ELSE {}
    IN forward \cup capture(-1) \cup capture(1)

pawnMoves(row, col, piece, board, lastMove) ==
    LET direction == IF piece.color = "w" THEN -1 ELSE 1
        startRow == IF piece.color = "w" THEN 6 ELSE 1
        forward ==
            IF IsNull(At(board, row + direction, col))
            THEN addMove(piece, board, row + direction, col) \cup
                 (IF row = startRow /\ IsNull(At(board, row + direction * 2, col))
                  THEN addMove(piece, board, row + direction * 2, col)
                  ELSE {})
            ELSE {}
        capture(offset) ==
            LET targetRow == row + direction
                targetCol == col + offset
            IN IF OnBoard(targetRow, targetCol)
               THEN (IF ~IsNull(Sq(board, <<targetRow, targetCol>>))
                        /\ Sq(board, <<targetRow, targetCol>>).color # piece.color
                     THEN addMove(piece, board, targetRow, targetCol)
                     ELSE {})
                    \cup
                    (IF lastMove.defined
                        /\ Sq(board, lastMove.to).type = "p"
                        /\ Abs(lastMove.from[1] - lastMove.to[1]) = 2
                        /\ lastMove.to[2] = targetCol
                        /\ lastMove.to[1] = row
                     THEN addMove(piece, board, targetRow, targetCol)
                     ELSE {})
               ELSE {}
    IN forward \cup capture(-1) \cup capture(1)

castlingMoves(row, piece, board) ==
    IF ~Truthy(piece.hasMoved)
    THEN (IF Sq(board, <<row, 7>>).type = "r"
             /\ Sq(board, <<row, 7>>).color = piece.color
             /\ ~Truthy(Sq(board, <<row, 7>>).hasMoved)
             /\ IsNull(Sq(board, <<row, 5>>))
             /\ IsNull(Sq(board, <<row, 6>>))
          THEN {<<row, 6>>} ELSE {})
         \cup
         (IF Sq(board, <<row, 0>>).type = "r"
             /\ Sq(board, <<row, 0>>).color = piece.color
             /\ ~Truthy(Sq(board, <<row, 0>>).hasMoved)
             /\ IsNull(Sq(board, <<row, 1>>))
             /\ IsNull(Sq(board, <<row, 2>>))
             /\ IsNull(Sq(board, <<row, 3>>))
          THEN {<<row, 2>>} ELSE {})
    ELSE {}

getRawPieceMoves(pos, piece, board, lastMove) ==
    LET row == pos[1]
        col == pos[2]
    IN CASE piece.type = "p" -> pawnMoves(row, col, piece, board, lastMove)
         [] piece.type = "n" ->
              UNION {addMove(piece, board, row + d[1], col + d[2]) : d \in knightMoves}
         [] piece.type \in {"b", "r", "q"} ->
              UNION {Ray(piece, board, row + d[1], col + d[2], d[1], d[2]) :
                        d \in directions(piece.type)}
         [] piece.type = "k" ->
              UNION {addMove(piece, board, row + d[1], col + d[2]) : d \in kingMoves}
              \cup castlingMoves(row, piece, board)
         [] OTHER -> {}

isPositionUnderAttack(pos, attackingColor, board) ==
    \E p \in Pos :
        /\ Sq(board, p).color = attackingColor
        /\ pos \in getRawPieceMoves(p, Sq(board, p), board, undefinedMove)

isInCheckThrows(board, color) == ~HasKing(board, color)

isInCheck(board, color) ==
    isPositionUnderAttack(findKing(board, color), Opp(color), board)

wouldBeInCheckThrows(board, from, to, movingColor) ==
    /\ ~IsNull(Sq(board, from))
    /\ Sq(board, from).type # "k"
    /\ ~HasKing(simulateMove(board, from, to, Sq(board, from)), movingColor)

wouldBeInCheck(board, from, to, movingColor) ==
    LET piece == Sq(board, from)
    IN IF IsNull(piece) THEN FALSE
       ELSE LET simulatedBoard == simulateMove(board, from, to, piece)
                kingPos == IF piece.type = "k" THEN to
                           ELSE findKing(simulatedBoard, movingColor)
            IN \E p \in Pos :
                  /\ ~IsNull(Sq(simulatedBoard, p))
                  /\ Sq(simulatedBoard, p).color # movingColor
                  /\ kingPos \in getRawPieceMoves(p, Sq(simulatedBoard, p),
                                                  simulatedBoard, undefinedMove)

\* the filter callback throws on the first raw move it is called with
getLegalMovesThrows(pos, piece, board, lastMove) ==
    \E move \in getRawPieceMoves(pos, piece, board, lastMove) :
        \/ /\ piece.type = "k"
           /\ Abs(move[2] - pos[2]) = 2
           /\ isInCheckThrows(board, piece.color)
        \/ wouldBeInCheckThrows(board, pos, move, piece.color)

\* getLegalMoves filtering every square of the board, not the raw moves
getLegalMoves_allSquares(pos, piece, board, lastMove) ==
    {move \in Pos : move # pos /\ ~wouldBeInCheck(board, pos, move, piece.color)}

getLegalMoves(pos, piece, board, lastMove) ==
    LET rawMoves == getRawPieceMoves(pos, piece, board, lastMove)
    IN IF piece.type = "k"
       THEN {move \in rawMoves :
               LET toCol == move[2]
                   isCastling == Abs(toCol - pos[2]) = 2
                   row == pos[1]
                   direction == IF toCol = 6 THEN 1 ELSE -1
                   intermediateCol == pos[2] + direction
               IN /\ isCastling =>
                       /\ ~isInCheck(board, piece.color)
                       /\ ~isPositionUnderAttack(<<row, intermediateCol>>,
                                                 Opp(piece.color), board)
                  /\ ~wouldBeInCheck(board, pos, move, piece.color)}
       ELSE {move \in rawMoves : ~wouldBeInCheck(board, pos, move, piece.color)}

isInCheckmateThrows(board, color) ==
    \/ isInCheckThrows(board, color)
    \/ /\ isInCheck(board, color)
       /\ \E p \in Pos :
             /\ Sq(board, p).color = color
             /\ getLegalMovesThrows(p, Sq(board, p), board, undefinedMove)

\* isInCheckmate without its first test: no legal move is reported as mate
isInCheckmate_noCheckTest(board, color) ==
    ~\E p \in Pos :
        /\ ~IsNull(Sq(board, p))
        /\ Sq(board, p).color = color
        /\ getLegalMoves(p, Sq(board, p), board, undefinedMove) # {}

isInCheckmate(board, color) ==
    IF ~isInCheck(board, color) THEN FALSE
    ELSE ~\E p \in Pos :
             /\ ~IsNull(Sq(board, p))
             /\ Sq(board, p).color = color
             /\ getLegalMoves(p, Sq(board, p), board, undefinedMove) # {}

(***************************************************************************)
(* The work a call does: the iterations of the sliding loop and the calls  *)
(* between the functions of the file                                       *)
(***************************************************************************)
\* the sliding loop staying on its square
rayStep_noAdvance(r, dr) == r

\* r += dr; c += dc
rayStep(r, dr) == r + dr

\* the number of times the body of while (r >= 0 && r < 8 && c >= 0 && c < 8)
\* runs from <<r, c>> in direction <<dr, dc>>, `done` iterations being made
\* already; -1 when the loop is still running after 8 iterations
RECURSIVE rayIterations(_, _, _, _, _, _)
rayIterations(board, r, c, dr, dc, done) ==
    IF ~OnBoard(r, c) THEN done
    ELSE IF done >= 8 THEN -1
         ELSE IF ~IsNull(Sq(board, <<r, c>>)) THEN done + 1
              ELSE rayIterations(board, rayStep(r, dr), rayStep(c, dc), dr, dc,
                                 done + 1)

\* <<f, g>>: the body of f holds a call of g
calls ==
    {<<"getLegalMoves", "getRawPieceMoves">>, <<"getLegalMoves", "isInCheck">>,
     <<"getLegalMoves", "isPositionUnderAttack">>, <<"getLegalMoves", "wouldBeInCheck">>,
     <<"wouldBeInCheck", "simulateMove">>, <<"wouldBeInCheck", "findKing">>,
     <<"wouldBeInCheck", "getRawPieceMoves">>,
     <<"isPositionUnderAttack", "getRawPieceMoves">>,
     <<"isInCheck", "findKing">>, <<"isInCheck", "isPositionUnderAttack">>,
     <<"isInCheckmate", "isInCheck">>, <<"isInCheckmate", "getLegalMoves">>,
     <<"getRawPieceMoves", "addMove">>}

functions == {c[1] : c \in calls} \cup {c[2] : c \in calls}

\* the functions reached from fs by at most n further calls
RECURSIVE calledFrom(_, _)
calledFrom(fs, n) ==
    IF n = 0 THEN fs
    ELSE calledFrom(fs \cup {c[2] : c \in {x \in calls : x[1] \in fs}}, n - 1)

(***************************************************************************)
(* The board argument as a call leaves it.  simulateMove is the only       *)
(* function of the file that writes to a board.                            *)
(***************************************************************************)
\* simulateMove writing to the rows of its argument
simulateMoveLeaves_rowsShared(board, from, to, piece) ==
    Put(Put(board, from, null), to, piece)

\* newBoard = board.map(row => [...row]): the two writes go to copies of the
\* rows, the argument keeps its squares
simulateMoveLeaves(board, from, to, piece) == board

wouldBeInCheckLeaves(board, from, to, movingColor) ==
    IF IsNull(Sq(board, from)) THEN board
    ELSE simulateMoveLeaves(board, from, to, Sq(board, from))

\* the first of a set of positions in the order of the two nested loops
firstPos(ps) ==
    CHOOSE p \in ps : \A q \in ps : p[1] < q[1] \/ (p[1] = q[1] /\ p[2] <= q[2])

\* the filter callback reaches wouldBeInCheck for this raw move
reachesWouldBeInCheck(pos, piece, board, move) ==
    (piece.type = "k" /\ Abs(move[2] - pos[2]) = 2) =>
        /\ ~isInCheck(board, piece.color)
        /\ ~isPositionUnderAttack(<<pos[1], pos[2] + (IF move[2] = 6 THEN 1 ELSE -1)>>,
                                  Opp(piece.color), board)

RECURSIVE filterLeaves(_, _, _, _)
filterLeaves(pos, piece, board, moves) ==
    IF moves = {} THEN board
    ELSE LET move == firstPos(moves)
             b == IF Sq(board, pos) = piece
                     /\ reachesWouldBeInCheck(pos, piece, board, move)
                  THEN wouldBeInCheckLeaves(board, pos, move, piece.color)
                  ELSE board
         IN filterLeaves(pos, piece, b, moves \ {move})

getLegalMovesLeaves(pos, piece, board, lastMove) ==
    filterLeaves(pos, piece, board, getRawPieceMoves(pos, piece, board, lastMove))

RECURSIVE piecesLeave(_, _, _)
piecesLeave(board, color, ps) ==
    IF ps = {} THEN board
    ELSE LET p == firstPos(ps)
         IN IF Sq(board, p).color # color
            THEN piecesLeave(board, color, ps \ {p})
            ELSE IF getLegalMoves(p, Sq(board, p), board, undefinedMove) # {}
                 THEN getLegalMovesLeaves(p, Sq(board, p), board, undefinedMove)
                 ELSE piecesLeave(getLegalMovesLeaves(p, Sq(board, p), board,
                                                      undefinedMove),
                                  color, ps \ {p})

isInCheckmateLeaves(board, color) ==
    IF ~isInCheck(board, color) THEN board
    ELSE piecesLeave(board, color, Pos)

(***************************************************************************)
(* App.tsx: state of the App component                                     *)
(***************************************************************************)
VARIABLES
    board,           \* useState<Board>
    turn,            \* useState<Color>
    selectedPos,     \* useState<Position | null>
    promotionState,  \* useState<PromotionState | null>
    moveHistory,     \* useState<Move[]>
    capturedPieces,  \* useState<{ w: Piece[], b: Piece[] }>
    isCheck,         \* useState(false)
    isCheckmate,     \* useState(false)
    INITIAL_BOARD,   \* the module constant; its piece objects can be written to
    committed,       \* history: the board changes made and not undone
    lastOp,          \* history: the handler that ran last
    undone,          \* history: what the last handleUndo reverted
    priorBoard,      \* history: the board the last handler started from, as
                     \* that array reads once the handler has returned
    afterNewGame,    \* history: 0 until New Game is pressed, then 1 + the
                     \* number of handlers that ran since
    queried,         \* history: the last call of a function of the engine
                     \* and what it returned
    timers           \* the setTimeout callbacks in the order of their
                     \* creation, each with the board and turn its makeMove
                     \* closure holds and whether it has run

vars == <<board, turn, selectedPos, promotionState, moveHistory, capturedPieces,
          isCheck, isCheckmate, INITIAL_BOARD, committed, lastOp, undone,
          priorBoard, afterNewGame, queried, timers>>

\* every variable but the count of handlers
appVars == <<board, turn, selectedPos, promotionState, moveHistory, capturedPieces,
             isCheck, isCheckmate, INITIAL_BOARD, committed, lastOp, undone,
             priorBoard, queried, timers>>

\* record of a call of a function of chess-check-detection.tsx:
\* its name and arguments (the board argument is the variable board), whether
\* it threw, the boolean or the list of destinations it returned, and how
\* many times in a row the call has been made
Query(name, pos, color, threw, bool, moves) ==
    [query |-> name, pos |-> pos, color |-> color, threw |-> threw,
     bool |-> bool, moves |-> moves,
     calls |-> IF queried.query = name THEN queried.calls + 1 ELSE 1]

\* no call made yet
noQuery ==
    [query |-> "none", pos |-> <<0, 0>>, color |-> "w", threw |-> FALSE,
     bool |-> FALSE, moves |-> {}, calls |-> 0]

\* selectedPos when it is null
noSelection == <<-1, -1>>

\* promotionState when it is null
noPromotion == [pending |-> FALSE, from |-> <<0, 0>>, to |-> <<0, 0>>, color |-> "w"]

PromotionState(from, to, color) ==
    [pending |-> TRUE, from |-> from, to |-> to, color |-> color]

Move(startPos, endPos, piece, capturedPiece) ==
    [startPos |-> startPos, endPos |-> endPos, piece |-> piece,
     capturedPiece |-> capturedPiece]

\* lastMove as getPieceMoves derives it from moveHistory
historyLastMove(history) ==
    IF Len(history) > 0
    THEN LastMove(history[Len(history)].startPos, history[Len(history)].endPos)
    ELSE undefinedMove

getPieceMovesThrows(pos, piece, b, history) ==
    getLegalMovesThrows(pos, piece, b, historyLastMove(history))

getPieceMoves(pos, piece, b, history) ==
    getLegalMoves(pos, piece, b, historyLastMove(history))

\* isValidMove throws: findKing fails in getPieceMoves
isValidMoveThrows(from, b, t, history) ==
    /\ ~IsNull(Sq(b, from))
    /\ Sq(b, from).color = t
    /\ getPieceMovesThrows(from, Sq(b, from), b, history)

\* isValidMove returns true (it neither returns false nor throws)
isValidMove(from, to, b, t, history) ==
    /\ ~IsNull(Sq(b, from))
    /\ Sq(b, from).color = t
    /\ ~getPieceMovesThrows(from, Sq(b, from), b, history)
    /\ to \in getPieceMoves(from, Sq(b, from), b, history)

(***************************************************************************)
(* makeMove, split into the values it computes                             *)
(***************************************************************************)
isEnPassantCapture(b, from, to) ==
    /\ Sq(b, from).type = "p"
    /\ Abs(from[2] - to[2]) = 1
    /\ IsNull(Sq(b, to))

\* the square makeMove clears for an en passant capture
enPassantSquare(b, from, to) ==
    LET direction == IF Sq(b, from).color = "w" THEN -1 ELSE 1
    IN <<to[1] - direction, to[2]>>

isCastlingMove(b, from, to) ==
    Sq(b, from).type = "k" /\ Abs(to[2] - from[2]) = 2

\* the promotion test for the last row of one side only
isPromotionMove_row7Only(b, from, to) ==
    Sq(b, from).type = "p" /\ to[1] = 7

isPromotionMove(b, from, to) ==
    Sq(b, from).type = "p" /\ (to[1] = 0 \/ to[1] = 7)

\* newBoard[fromRow][5]!.hasMoved = true on a null square is a TypeError
makeMoveThrowsInCastling(b, from, to) ==
    /\ isCastlingMove(b, from, to)
    /\ \/ to[2] = 6 /\ IsNull(Sq(b, <<from[1], 7>>))
       \/ to[2] = 2 /\ IsNull(Sq(b, <<from[1], 0>>))

\* the en passant capture leaving the captured pawn on the board
afterEnPassant_pawnKept(b, from, to) == b

afterEnPassant(b, from, to) ==
    IF isEnPassantCapture(b, from, to)
    THEN Put(b, enPassantSquare(b, from, to), null)
    ELSE b

\* the castling rook relocated without its flag being set
rookMoved_flagUnset(rook) == [rook EXCEPT !.moves = @ + 1]

rookMoved(rook) == [rook EXCEPT !.hasMoved = "true", !.moves = @ + 1]

afterCastling(b, nb, from, to) ==
    IF isCastlingMove(b, from, to)
    THEN IF to[2] = 6
         THEN Put(Put(nb, <<from[1], 5>>, rookMoved(Sq(nb, <<from[1], 7>>))),
                  <<from[1], 7>>, null)
         ELSE IF to[2] = 2
              THEN Put(Put(nb, <<from[1], 3>>, rookMoved(Sq(nb, <<from[1], 0>>))),
                       <<from[1], 0>>, null)
              ELSE nb
    ELSE nb

\* rook.hasMoved = true, seen through another reference to the same object
flagSet(piece) == [piece EXCEPT !.hasMoved = "true"]

\* the corner whose rook object the castling branch of makeMove writes to
castlingCorner(from, to) == <<from[1], IF to[2] = 6 THEN 7 ELSE 0>>

makeMoveMutatesRook(b, from, to) ==
    isCastlingMove(b, from, to) /\ to[2] \in {2, 6}

\* the board makeMove started from, as it reads when makeMove returns: newBoard
\* copies the rows, not the pieces, so the rook that gets hasMoved = true is
\* the object the prior board holds on the corner
makeMovePriorBoard(b, from, to) ==
    IF makeMoveMutatesRook(b, from, to)
    THEN Put(b, castlingCorner(from, to), flagSet(Sq(b, castlingCorner(from, to))))
    ELSE b

\* INITIAL_BOARD when makeMove returns: the board state starts as INITIAL_BOARD
\* itself, so a rook that never moved is the object INITIAL_BOARD holds
makeMoveInitialBoard(ib, b, from, to) ==
    IF makeMoveMutatesRook(b, from, to)
          /\ Sq(b, castlingCorner(from, to)).origin # noOrigin
    THEN Put(ib, Sq(b, castlingCorner(from, to)).origin,
             flagSet(Sq(ib, Sq(b, castlingCorner(from, to)).origin)))
    ELSE ib

\* { ...piece, hasMoved: true }
pieceMoved(piece) ==
    [piece EXCEPT !.hasMoved = "true", !.moves = @ + 1, !.origin = noOrigin]

\* newBoard of makeMove when it reaches setBoard
makeMoveBoard(b, from, to) ==
    LET nb == afterCastling(b, afterEnPassant(b, from, to), from, to)
    IN Put(Put(nb, to, pieceMoved(Sq(b, from))), from, null)

addCaptured(captured, piece) ==
    IF IsNull(piece) THEN captured
    ELSE [captured EXCEPT ![piece.color] = Append(@, piece)]

makeMoveCaptured(b, from, to, captured) ==
    LET c1 == IF isEnPassantCapture(b, from, to)
              THEN addCaptured(captured, Sq(b, enPassantSquare(b, from, to)))
              ELSE captured
    IN IF isPromotionMove(b, from, to) THEN c1 ELSE addCaptured(c1, Sq(b, to))

makeMoveRecord(b, from, to) == Move(from, to, Sq(b, from), Sq(b, to))

(***************************************************************************)
(* handlePromotion and handleUndo                                          *)
(***************************************************************************)
\* { type: pieceType, color: promotionState.color }
promotedPiece(pieceType, color) == Piece(pieceType, color, "undefined", 0)

\* handlePromotion leaving the pawn on its origin square
handlePromotionBoard_pawnKept(b, ps, pieceType) ==
    Put(b, ps.to, promotedPiece(pieceType, ps.color))

handlePromotionBoard(b, ps, pieceType) ==
    Put(Put(b, ps.to, promotedPiece(pieceType, ps.color)), ps.from, null)

\* { ...lastMove.piece, hasMoved: false }
pieceRestored(piece) == [piece EXCEPT !.hasMoved = "false", !.origin = noOrigin]

\* the undo of castling moving the rook back without resetting its flag
rookRestored_flagKept(rook) ==
    IF IsNull(rook) THEN rook
    ELSE [rook EXCEPT !.moves = IF @ > 0 THEN @ - 1 ELSE 0]

\* if (rook && 'hasMoved' in rook) rook.hasMoved = false
rookRestored(rook) ==
    IF IsNull(rook) THEN rook
    ELSE [rook EXCEPT !.hasMoved = IF @ = "undefined" THEN @ ELSE "false",
                      !.moves = IF @ > 0 THEN @ - 1 ELSE 0]

handleUndoBoard(b, lastMove) ==
    LET from == lastMove.startPos
        to == lastMove.endPos
        nb == Put(Put(b, from, pieceRestored(lastMove.piece)),
                  to, lastMove.capturedPiece)
    IN IF lastMove.piece.type = "k" /\ Abs(to[2] - from[2]) = 2
       THEN IF to[2] = 6
            THEN Put(Put(nb, <<from[1], 7>>, rookRestored(Sq(nb, <<from[1], 5>>))),
                     <<from[1], 5>>, null)
            ELSE IF to[2] = 2
                 THEN Put(Put(nb, <<from[1], 0>>, rookRestored(Sq(nb, <<from[1], 3>>))),
                          <<from[1], 3>>, null)
                 ELSE nb
       ELSE nb

\* if (rook && 'hasMoved' in rook) rook.hasMoved = false, seen through another
\* reference to the same object
flagCleared(piece) ==
    IF IsNull(piece) THEN piece
    ELSE [piece EXCEPT !.hasMoved = IF @ = "undefined" THEN @ ELSE "false"]

handleUndoMutatesRook(lastMove) ==
    /\ lastMove.piece.type = "k"
    /\ Abs(lastMove.endPos[2] - lastMove.startPos[2]) = 2
    /\ lastMove.endPos[2] \in {2, 6}

\* the square next to the king from which the undo of castling takes the rook
castledRookSquare(lastMove) ==
    <<lastMove.startPos[1], IF lastMove.endPos[2] = 6 THEN 5 ELSE 3>>

\* the board handleUndo started from, as it reads when handleUndo returns
handleUndoPriorBoard(b, lastMove) ==
    IF handleUndoMutatesRook(lastMove)
    THEN Put(b, castledRookSquare(lastMove), flagCleared(Sq(b, castledRookSquare(lastMove))))
    ELSE b

\* INITIAL_BOARD when handleUndo returns
handleUndoInitialBoard(ib, b, lastMove) ==
    IF handleUndoMutatesRook(lastMove)
          /\ Sq(b, castledRookSquare(lastMove)).origin # noOrigin
    THEN Put(ib, Sq(b, castledRookSquare(lastMove)).origin,
             flagCleared(Sq(ib, Sq(b, castledRookSquare(lastMove)).origin)))
    ELSE ib

handleUndoCaptured(lastMove, captured) ==
    IF IsNull(lastMove.capturedPiece) THEN captured
    ELSE [captured EXCEPT ![lastMove.capturedPiece.color] =
                              SubSeq(@, 1, Len(@) - 1)]

(***************************************************************************)
(* Positions the exploration starts from: positions of a game in progress, *)
(* the moves that led to them left out of moveHistory.  hasMoved is true   *)
(* on a piece put down by makeMove (line 239 of App.tsx), false on a piece *)
(* put back by handleUndo (line 296) or unmoved on black's back rank, and  *)
(* absent on an unmoved white piece (INITIAL_BOARD, lines 58-89).          *)
(***************************************************************************)
MkBoard(placed) ==
    [r \in 1..8 |-> [c \in 1..8 |->
        IF <<r - 1, c - 1>> \in DOMAIN placed THEN placed[<<r - 1, c - 1>>] ELSE null]]

\* a2/a3 and h2/h3, h3/h4: pawns that face each other and cannot move
\* white pawn e5 beside d7; white king a5 and black rook h5 on the fifth rank
EnPassantBoard ==
    MkBoard(<<3, 0>> :> Piece("k", "w", "false", 1) @@
            <<3, 4>> :> Piece("p", "w", "false", 2) @@
            <<5, 7>> :> Piece("p", "w", "false", 1) @@
            <<1, 3>> :> Piece("p", "b", "false", 0) @@
            <<3, 7>> :> Piece("r", "b", "false", 1) @@
            <<4, 7>> :> Piece("p", "b", "false", 2) @@
            <<2, 7>> :> Piece("k", "b", "false", 1))

\* white king and rooks at home; the a1 rook has been to b1 and back
CastlingBoard ==
    MkBoard(<<7, 4>> :> Piece("k", "w", "false", 0) @@
            <<7, 7>> :> Piece("r", "w", "false", 0) @@
            <<7, 0>> :> Piece("r", "w", "true", 2) @@
            <<6, 0>> :> Piece("p", "w", "false", 0) @@
            <<6, 7>> :> Piece("p", "w", "false", 0) @@
            <<5, 0>> :> Piece("p", "b", "false", 3) @@
            <<5, 7>> :> Piece("p", "b", "false", 3) @@
            <<0, 4>> :> Piece("k", "b", "false", 0))

\* white pawn g7 about to promote, black pawns a7 and b5
PromotionBoard ==
    MkBoard(<<1, 6>> :> Piece("p", "w", "false", 4) @@
            <<7, 7>> :> Piece("k", "w", "false", 1) @@
            <<1, 0>> :> Piece("p", "b", "false", 0) @@
            <<3, 1>> :> Piece("p", "b", "false", 1) @@
            <<0, 0>> :> Piece("k", "b", "false", 1))

\* queen and rook against the lone king: Qc8 mates, Qc7 stalemates
MateBoard ==
    MkBoard(<<0, 0>> :> Piece("k", "b", "false", 1) @@
            <<7, 2>> :> Piece("q", "w", "false", 0) @@
            <<1, 7>> :> Piece("r", "w", "false", 2) @@
            <<7, 7>> :> Piece("k", "w", "false", 1))

\* black pawn b7 beside the white pawn a5; the white king a4 has no square to
\* go to: a3, b3, b4 and b5 are covered by the pawns b4, c4, c5 and a6
EnPassantCheckBoard ==
    MkBoard(<<4, 0>> :> Piece("k", "w", "false", 1) @@
            <<3, 0>> :> Piece("p", "w", "false", 2) @@
            <<2, 0>> :> Piece("p", "b", "false", 1) @@
            <<1, 1>> :> Piece("p", "b", "false", 0) @@
            <<4, 1>> :> Piece("p", "b", "false", 2) @@
            <<3, 2>> :> Piece("p", "b", "false", 1) @@
            <<4, 2>> :> Piece("p", "b", "false", 2) @@
            <<0, 7>> :> Piece("k", "b", "false", 1))

\* white king and h1 rook at home; the black pawn d3 can take on e2, in
\* front of the king
CastlingAttackedBoard ==
    MkBoard(<<7, 4>> :> Piece("k", "w", "false", 0) @@
            <<7, 7>> :> Piece("r", "w", "false", 0) @@
            <<6, 4>> :> Piece("p", "w", "false", 0) @@
            <<5, 3>> :> Piece("p", "b", "false", 4) @@
            <<0, 0>> :> Piece("k", "b", "false", 1))

\* history record of a board change: the move, the board it started from and
\* the piece kind handed to handlePromotion ("none" for makeMove)
Committed(from, to, piece, b, pieceType) ==
    [from |-> from, to |-> to, piece |-> piece, board |-> b, pieceType |-> pieceType]

\* history record of an undo: the Move taken off moveHistory, the most recent
\* board change (its Committed record), the board that change started from,
\* and whether the handler that ran just before the undo was the makeMove
\* that appended that Move
Undone(move, last, immediate) ==
    [defined |-> TRUE, move |-> move, last |-> last, before |-> last.board,
     immediate |-> immediate]

noUndone ==
    [defined |-> FALSE,
     move |-> Move(<<0, 0>>, <<0, 0>>, null, null),
     last |-> Committed(<<0, 0>>, <<0, 0>>, null, MkBoard(<<>>), "none"),
     before |-> MkBoard(<<>>),
     immediate |-> FALSE]

\* a piece object of the INITIAL_BOARD literal
InitialPiece(type, color, hasMoved, pos) ==
    [Piece(type, color, hasMoved, 0) EXCEPT !.origin = pos]

backRank == <<"r", "n", "b", "q", "k", "b", "n", "r">>

\* the INITIAL_BOARD literal: hasMoved: false on black's back rank only
InitialBoardValue ==
    [r \in 1..8 |-> [c \in 1..8 |->
        CASE r = 1 -> InitialPiece(backRank[c], "b", "false", <<r - 1, c - 1>>)
          [] r = 2 -> InitialPiece("p", "b", "undefined", <<r - 1, c - 1>>)
          [] r = 7 -> InitialPiece("p", "w", "undefined", <<r - 1, c - 1>>)
          [] r = 8 -> InitialPiece(backRank[c], "w", "undefined", <<r - 1, c - 1>>)
          [] OTHER -> null]]

\* the a1 rook has never moved: it is the object of INITIAL_BOARD, without
\* hasMoved.  Castling queenside mates the black king d8, whose flight squares
\* the pawns b6, b7, f6 and f7 cover.
CastlingMateBoard ==
    MkBoard(<<7, 4>> :> Piece("k", "w", "false", 0) @@
            <<7, 0>> :> InitialPiece("r", "w", "undefined", <<7, 0>>) @@
            <<2, 1>> :> Piece("p", "w", "false", 3) @@
            <<1, 1>> :> Piece("p", "w", "false", 4) @@
            <<2, 5>> :> Piece("p", "w", "false", 3) @@
            <<1, 5>> :> Piece("p", "w", "false", 4) @@
            <<0, 3>> :> Piece("k", "b", "false", 1) @@
            <<0, 1>> :> Piece("r", "b", "false", 2) @@
            <<0, 5>> :> Piece("r", "b", "false", 2))

\* the white king has gone from e1 to d1 (hasMoved true), the h1 rook has not
\* moved; the black king stands on a8
KingOffHomeBoard ==
    MkBoard(<<7, 3>> :> Piece("k", "w", "true", 1) @@
            <<7, 7>> :> Piece("r", "w", "false", 0) @@
            <<0, 0>> :> Piece("k", "b", "false", 1))

StartPositions ==
    {[board |-> EnPassantBoard, turn |-> "b"],
     [board |-> CastlingBoard, turn |-> "w"],
     [board |-> PromotionBoard, turn |-> "b"],
     [board |-> MateBoard, turn |-> "w"],
     [board |-> EnPassantCheckBoard, turn |-> "b"],
     [board |-> CastlingAttackedBoard, turn |-> "b"],
     [board |-> CastlingMateBoard, turn |-> "w"],
     [board |-> KingOffHomeBoard, turn |-> "w"]}

Init ==
    /\ \E s \in StartPositions : board = s.board /\ turn = s.turn
    /\ selectedPos = noSelection
    /\ promotionState = noPromotion
    /\ moveHistory = <<>>
    /\ capturedPieces = [w |-> <<>>, b |-> <<>>]
    /\ isCheck = FALSE
    /\ isCheckmate = FALSE
    /\ INITIAL_BOARD = InitialBoardValue
    /\ committed = <<>>
    /\ lastOp = "init"
    /\ undone = noUndone
    /\ priorBoard = board
    /\ afterNewGame = 0
    /\ queried = noQuery
    /\ timers = <<>>

\* black to move mates with b3-b2 (the king a3 covers a2 and b2, the pawn c2
\* covers b1) or promotes with c2-c1
PawnMateBoard ==
    MkBoard(<<7, 0>> :> Piece("k", "w", "false", 1) @@
            <<5, 0>> :> Piece("k", "b", "false", 1) @@
            <<5, 1>> :> Piece("p", "b", "false", 3) @@
            <<6, 2>> :> Piece("p", "b", "false", 4))

\* the positions the games played click by click start from
ClickStartPositions ==
    {[board |-> PawnMateBoard, turn |-> "b"],
     [board |-> MateBoard, turn |-> "w"]}

InitClicks ==
    /\ \E s \in ClickStartPositions : board = s.board /\ turn = s.turn
    /\ selectedPos = noSelection
    /\ promotionState = noPromotion
    /\ moveHistory = <<>>
    /\ capturedPieces = [w |-> <<>>, b |-> <<>>]
    /\ isCheck = FALSE
    /\ isCheckmate = FALSE
    /\ INITIAL_BOARD = InitialBoardValue
    /\ committed = <<>>
    /\ lastOp = "init"
    /\ undone = noUndone
    /\ priorBoard = board
    /\ afterNewGame = 0
    /\ queried = noQuery
    /\ timers = <<>>

\* the promotion and checkmate overlays cover the board and the undo button
overlayShown == promotionState.pending \/ isCheckmate

(***************************************************************************)
(* handleSquareClick on a legal destination of the selected piece, and the *)
(* makeMove(selectedPos, pos) it schedules                                 *)
(***************************************************************************)
\* isValidMove without its test of the colour of the piece
validMoves_anyColour(from, b, t, history) ==
    IF ~IsNull(Sq(b, from))
          /\ ~getPieceMovesThrows(from, Sq(b, from), b, history)
    THEN getPieceMoves(from, Sq(b, from), b, history)
    ELSE {}

\* the destinations handleSquareClick accepts for the selected square
validMoves(from, b, t, history) ==
    IF ~IsNull(Sq(b, from)) /\ Sq(b, from).color = t
          /\ ~getPieceMovesThrows(from, Sq(b, from), b, history)
    THEN getPieceMoves(from, Sq(b, from), b, history)
    ELSE {}

\* makeMove(from, to) of the render whose board is b and whose turn is t;
\* setCapturedPieces and setMoveHistory take the value current when they run
makeMoveOf(b, t, from, to) ==
    /\ ~makeMoveThrowsInCastling(b, from, to)
    /\ UNCHANGED queried
    /\ capturedPieces' = makeMoveCaptured(b, from, to, capturedPieces)
    /\ priorBoard' = makeMovePriorBoard(b, from, to)
    /\ INITIAL_BOARD' = makeMoveInitialBoard(INITIAL_BOARD, b, from, to)
    /\ IF isPromotionMove(b, from, to)
       THEN /\ promotionState' = PromotionState(from, to, Sq(b, from).color)
            /\ lastOp' = "makeMovePending"
            /\ UNCHANGED <<board, turn, moveHistory, isCheck, isCheckmate, committed,
                           undone>>
       ELSE LET newBoard == makeMoveBoard(b, from, to)
                nextTurn == Opp(t)
            IN /\ board' = newBoard
               /\ committed' = Append(committed, Committed(from, to, Sq(b, from), b, "none"))
               /\ undone' = noUndone
               /\ UNCHANGED promotionState
               /\ IF isInCheckThrows(newBoard, nextTurn)
                     \/ isInCheckmateThrows(newBoard, nextTurn)
                  THEN /\ lastOp' = "makeMoveThrew"
                       /\ UNCHANGED <<turn, moveHistory, isCheck, isCheckmate>>
                  ELSE /\ lastOp' = "makeMove"
                       /\ isCheck' = isInCheck(newBoard, nextTurn)
                       /\ isCheckmate' = isInCheckmate(newBoard, nextTurn)
                       /\ turn' = nextTurn
                       /\ moveHistory' = Append(moveHistory,
                                                makeMoveRecord(b, from, to))

\* makeMove run by its timer before anything else happens: the render it
\* belongs to is the current one
makeMove(from, to) ==
    /\ makeMoveOf(board, turn, from, to)
    /\ UNCHANGED timers

handlePromotion(pieceType) ==
    /\ promotionState.pending
    /\ board' = handlePromotionBoard(board, promotionState, pieceType)
    /\ turn' = Opp(turn)
    /\ promotionState' = noPromotion
    /\ committed' = Append(committed,
                           Committed(promotionState.from, promotionState.to,
                                     Sq(board, promotionState.from), board,
                                     pieceType))
    /\ lastOp' = "handlePromotion"
    /\ undone' = noUndone
    /\ priorBoard' = board
    /\ UNCHANGED <<selectedPos, moveHistory, capturedPieces, isCheck, isCheckmate,
                   INITIAL_BOARD, queried, timers>>

handleUndo ==
    /\ ~overlayShown
    /\ Len(moveHistory) > 0
    /\ LET lastMove == moveHistory[Len(moveHistory)]
           newBoard == handleUndoBoard(board, lastMove)
       IN /\ board' = newBoard
          /\ capturedPieces' = handleUndoCaptured(lastMove, capturedPieces)
          /\ turn' = Opp(turn)
          /\ moveHistory' = SubSeq(moveHistory, 1, Len(moveHistory) - 1)
          /\ IF isInCheckThrows(newBoard, Opp(turn))
             THEN UNCHANGED <<isCheck, isCheckmate>>
             ELSE /\ isCheck' = isInCheck(newBoard, Opp(turn))
                  /\ isCheckmate' = FALSE
          /\ undone' = Undone(lastMove,
                              IF Len(committed) > 0
                              THEN committed[Len(committed)]
                              ELSE Committed(lastMove.startPos, lastMove.endPos,
                                             lastMove.piece, board, "none"),
                              lastOp = "makeMove")
    /\ priorBoard' = handleUndoPriorBoard(board, moveHistory[Len(moveHistory)])
    /\ INITIAL_BOARD' = handleUndoInitialBoard(INITIAL_BOARD, board,
                                               moveHistory[Len(moveHistory)])
    /\ committed' = SubSeq(committed, 1, Len(committed) - 1)
    /\ lastOp' = "handleUndo"
    /\ UNCHANGED <<selectedPos, promotionState, queried, timers>>

\* the New Game button of the checkmate overlay
newGame ==
    /\ isCheckmate
    /\ board' = INITIAL_BOARD
    /\ turn' = "w"
    /\ selectedPos' = noSelection
    /\ capturedPieces' = [w |-> <<>>, b |-> <<>>]
    /\ moveHistory' = <<>>
    /\ isCheck' = FALSE
    /\ isCheckmate' = FALSE
    /\ committed' = <<>>
    /\ lastOp' = "newGame"
    /\ undone' = noUndone
    /\ priorBoard' = board
    /\ UNCHANGED <<promotionState, INITIAL_BOARD, queried, timers>>

\* handleSquareClick(pos): with a selection, the click moves the selected piece
\* (makeMove runs 300 ms later, nothing else in between) or is rejected, and
\* either way clears the selection; without one it selects a piece of the
\* side to move.  threw: isValidMove throws for the selected square;
\* destinations: the squares isValidMove accepts for it
handleSquareClick(pos, threw, destinations) ==
    IF selectedPos # noSelection
    THEN IF threw
         THEN UNCHANGED appVars
         ELSE IF ~IsNull(Sq(board, selectedPos)) /\ pos \in destinations
              THEN /\ makeMove(selectedPos, pos)
                   /\ selectedPos' = noSelection
              ELSE /\ selectedPos' = noSelection
                   /\ lastOp' = "handleSquareClick"
                   /\ UNCHANGED <<board, turn, promotionState, moveHistory,
                                  capturedPieces, isCheck, isCheckmate,
                                  INITIAL_BOARD, committed, undone, priorBoard,
                                  queried, timers>>
    ELSE IF ~IsNull(Sq(board, pos)) /\ Sq(board, pos).color = turn
         THEN /\ selectedPos' = pos
              /\ lastOp' = "handleSquareClick"
              /\ UNCHANGED <<board, turn, promotionState, moveHistory,
                             capturedPieces, isCheck, isCheckmate,
                             INITIAL_BOARD, committed, undone, priorBoard,
                                  queried, timers>>
         ELSE UNCHANGED appVars

\* the promotion dialog offers exactly these
promotionChoices == {"q", "r", "b", "n"}

\* the handlers count once New Game has been pressed
counted ==
    /\ afterNewGame <= MaxAfterNewGame
    /\ afterNewGame' = IF afterNewGame > 0 THEN afterNewGame + 1 ELSE 0

Next ==
    \/ /\ ~overlayShown
       /\ Len(committed) < MaxPlies
       /\ Len(capturedPieces.w) + Len(capturedPieces.b) < MaxCaptured
       /\ counted
       /\ selectedPos' = noSelection
       /\ \E from \in Pos :
              /\ selectedPos \in {noSelection, from}
              /\ \E to \in validMoves(from, board, turn, moveHistory) : makeMove(from, to)
    \/ counted /\ \E pieceType \in promotionChoices : handlePromotion(pieceType)
    \/ counted /\ handleUndo
    \/ afterNewGame = 0 /\ afterNewGame' = 1 /\ newGame

Spec == Init /\ [][Next]_vars

\* type PieceType, the argument type of handlePromotion
PieceType == {"p", "n", "b", "r", "q", "k"}

\* the handlers called directly: handlePromotion takes any PieceType, the
\* promotion dialog being its only caller that restricts the choice
NextDirect ==
    \/ Next
    \/ counted /\ \E pieceType \in PieceType \ promotionChoices :
                      handlePromotion(pieceType)

SpecDirect == Init /\ [][NextDirect]_vars

withinBounds ==
    /\ Len(committed) < MaxPlies
    /\ Len(capturedPieces.w) + Len(capturedPieces.b) < MaxCaptured

\* the squares clicked: every piece, every destination of the selected piece,
\* and one empty square for the others, which handleSquareClick treats alike
clickedSquares(destinations) ==
    LET others == {p \in Pos : IsNull(Sq(board, p)) /\ p \notin destinations}
    IN  {p \in Pos : ~IsNull(Sq(board, p))} \cup destinations
            \cup (IF others = {} THEN {} ELSE {CHOOSE q \in others : TRUE})

\* the same handlers with every click on the board taken one by one
NextClicks ==
    \/ /\ ~overlayShown
       /\ counted
       /\ LET threw == /\ selectedPos # noSelection
                       /\ isValidMoveThrows(selectedPos, board, turn, moveHistory)
              destinations ==
                  IF selectedPos = noSelection \/ threw THEN {}
                  ELSE validMoves(selectedPos, board, turn, moveHistory)
          IN  \E pos \in clickedSquares(destinations) :
                  /\ pos \in destinations => withinBounds
                  /\ handleSquareClick(pos, threw, destinations)
    \/ counted /\ \E pieceType \in promotionChoices : handlePromotion(pieceType)
    \/ counted /\ handleUndo
    \/ afterNewGame = 0 /\ afterNewGame' = 1 /\ newGame

SpecClicks == InitClicks /\ [][NextClicks]_vars

(***************************************************************************)
(* The clicks and the callbacks of setTimeout(..., 300) taken apart: a     *)
(* click is handled while earlier callbacks are still waiting              *)
(***************************************************************************)
\* the callback () => { makeMove(selectedPos, pos); ... } and the board and
\* turn of the render that created it
Timer(from, to, b, t) ==
    [from |-> from, to |-> to, board |-> b, turn |-> t, ran |-> FALSE]

\* the callbacks that have not run yet
waiting == {i \in 1..Len(timers) : ~timers[i].ran}

\* handleSquareClick on a legal destination of the selected piece: the move
\* is validated against the current render and its makeMove is scheduled
scheduleMove(from, to) ==
    /\ selectedPos \in {noSelection, from}
    /\ to \in validMoves(from, board, turn, moveHistory)
    /\ timers' = Append(timers, Timer(from, to, board, turn))
    /\ selectedPos' = noSelection
    /\ lastOp' = "handleSquareClick"
    /\ UNCHANGED <<board, turn, promotionState, moveHistory, capturedPieces,
                   isCheck, isCheckmate, INITIAL_BOARD, committed, undone,
                   priorBoard, queried>>

\* the oldest waiting callback runs: makeMove of the render that created it
timerFires ==
    /\ waiting # {}
    /\ LET i == CHOOSE j \in waiting : \A k \in waiting : j <= k
           timer == timers[i]
       IN /\ timers' = [timers EXCEPT ![i].ran = TRUE]
          /\ IF makeMoveThrowsInCastling(timer.board, timer.from, timer.to)
             THEN UNCHANGED <<board, turn, promotionState, moveHistory,
                              capturedPieces, isCheck, isCheckmate, INITIAL_BOARD,
                              committed, undone, priorBoard, queried, lastOp,
                              selectedPos>>
             ELSE /\ makeMoveOf(timer.board, timer.turn, timer.from, timer.to)
                  /\ UNCHANGED selectedPos

NextDelayed ==
    \/ /\ ~overlayShown
       /\ Len(timers) < MaxTimers
       /\ counted
       /\ \E from \in Pos :
              \E to \in validMoves(from, board, turn, moveHistory) :
                  scheduleMove(from, to)
    \/ counted /\ timerFires
    \/ counted /\ \E pieceType \in promotionChoices : handlePromotion(pieceType)
    \/ counted /\ handleUndo
    \/ afterNewGame = 0 /\ afterNewGame' = 1 /\ newGame

\* the games with delayed callbacks start from the position of PawnMateBoard
InitDelayed == InitClicks /\ board = PawnMateBoard

SpecDelayed == InitDelayed /\ [][NextDelayed]_vars

(***************************************************************************)
(* The functions of chess-check-detection.tsx called on boards that play   *)
(* need not reach: with and without a king of each colour                  *)
(***************************************************************************)
\* either king or both: white king e1, black king e8
queryKings ==
    {<<7, 4>> :> Piece("k", "w", "false", 0) @@ <<0, 4>> :> Piece("k", "b", "false", 0),
     <<7, 4>> :> Piece("k", "w", "false", 0),
     <<0, 4>> :> Piece("k", "b", "false", 0)}

\* the white rook h1, or no rook
queryRooks == {<<7, 7>> :> Piece("r", "w", "false", 0), <<>>}

\* one piece of any kind but a king on e2, f2 or e4, or none
queryPieces ==
    {sq :> Piece(type, color, "false", 1) :
        sq \in {<<6, 4>>, <<6, 5>>, <<4, 4>>},
        type \in {"p", "n", "b", "r", "q"}, color \in Color}
    \cup {<<>>}

\* one pawn on e3 or d3, or none
queryPawns ==
    {sq :> Piece("p", color, "false", 1) :
        sq \in {<<5, 4>>, <<5, 3>>}, color \in Color}
    \cup {<<>>}

\* the pawn mate of PawnMateBoard: b3-b2 played
PawnMatedBoard == makeMoveBoard(PawnMateBoard, <<5, 1>>, <<6, 1>>)

\* pawns on their starting rows: e2 with e4 occupied, a black pawn on d3 and
\* a white one on f3; a7 on the edge with a white bishop on b6; h7 with h6
\* occupied
queryPawnBoards ==
    {MkBoard(<<7, 4>> :> Piece("k", "w", "false", 0) @@ <<0, 4>> :> Piece("k", "b", "false", 0)
             @@ x) :
        x \in {<<6, 4>> :> Piece("p", "w", "false", 0) @@ <<4, 4>> :> Piece("n", "b", "false", 1)
                  @@ <<5, 3>> :> Piece("p", "b", "false", 1)
                  @@ <<5, 5>> :> Piece("p", "w", "false", 1),
               <<1, 0>> :> Piece("p", "b", "false", 0) @@ <<2, 1>> :> Piece("b", "w", "false", 1),
               <<1, 7>> :> Piece("p", "b", "false", 0) @@ <<2, 7>> :> Piece("n", "w", "false", 1)}}

QueryBoards ==
    {MkBoard(k @@ r @@ x @@ y) :
        k \in queryKings, r \in queryRooks, x \in queryPieces, y \in queryPawns}
    \cup {PawnMatedBoard} \cup queryPawnBoards

InitQuery ==
    /\ board \in QueryBoards
    /\ turn = "w"
    /\ selectedPos = noSelection
    /\ promotionState = noPromotion
    /\ moveHistory = <<>>
    /\ capturedPieces = [w |-> <<>>, b |-> <<>>]
    /\ isCheck = FALSE
    /\ isCheckmate = FALSE
    /\ INITIAL_BOARD = InitialBoardValue
    /\ committed = <<>>
    /\ lastOp = "init"
    /\ undone = noUndone
    /\ priorBoard = board
    /\ afterNewGame = 0
    /\ queried = noQuery
    /\ timers = <<>>

\* everything but the board passed to the call and the record of the call
gameVars == <<turn, selectedPos, promotionState, moveHistory, capturedPieces,
              isCheck, isCheckmate, INITIAL_BOARD, committed, lastOp, undone,
              priorBoard, afterNewGame, timers>>

\* the calls made on a board: one call, then the same call again
firstOrRepeated(name, pos, color) ==
    \/ queried.query = "none"
    \/ /\ queried.query = name /\ queried.pos = pos /\ queried.color = color
       /\ queried.calls < 2

callIsInCheck(color) ==
    LET threw == isInCheckThrows(board, color)
    IN /\ firstOrRepeated("isInCheck", <<0, 0>>, color)
       /\ queried' = Query("isInCheck", <<0, 0>>, color, threw,
                            IF threw THEN FALSE ELSE isInCheck(board, color), {})
       /\ UNCHANGED board
       /\ UNCHANGED gameVars

callIsInCheckmate(color) ==
    LET threw == isInCheckmateThrows(board, color)
    IN /\ firstOrRepeated("isInCheckmate", <<0, 0>>, color)
       /\ queried' = Query("isInCheckmate", <<0, 0>>, color, threw,
                            IF threw THEN FALSE ELSE isInCheckmate(board, color), {})
       /\ board' = IF threw THEN board ELSE isInCheckmateLeaves(board, color)
       /\ UNCHANGED gameVars

callIsPositionUnderAttack(pos, attackingColor) ==
    /\ firstOrRepeated("isPositionUnderAttack", pos, attackingColor)
    /\ queried' = Query("isPositionUnderAttack", pos, attackingColor, FALSE,
                         isPositionUnderAttack(pos, attackingColor, board), {})
    /\ UNCHANGED board
    /\ UNCHANGED gameVars

callGetLegalMoves(pos) ==
    LET piece == Sq(board, pos)
        threw == getLegalMovesThrows(pos, piece, board, undefinedMove)
    IN /\ ~IsNull(piece)
       /\ firstOrRepeated("getLegalMoves", pos, piece.color)
       /\ queried' = Query("getLegalMoves", pos, piece.color, threw, FALSE,
                            IF threw THEN {}
                            ELSE getLegalMoves(pos, piece, board, undefinedMove))
       /\ board' = IF threw THEN board
                   ELSE getLegalMovesLeaves(pos, piece, board, undefinedMove)
       /\ UNCHANGED gameVars

\* the squares isPositionUnderAttack is asked about: the squares the white
\* king crosses and reaches when castling kingside
attackTargets == {<<7, 5>>, <<7, 6>>}

NextQuery ==
    \/ \E color \in Color : callIsInCheck(color)
    \/ \E color \in Color : callIsInCheckmate(color)
    \/ \E pos \in attackTargets, color \in Color : callIsPositionUnderAttack(pos, color)
    \/ \E pos \in Pos : callGetLegalMoves(pos)

SpecQuery == InitQuery /\ [][NextQuery]_vars

(***************************************************************************)
(* The move history table: every row rebuilds a board from INITIAL_BOARD   *)
(* and its records, and shows that board when it is clicked.  Games here   *)
(* start from the starting position, with clicks on a few pawns            *)
(***************************************************************************)
MaxReplayPlies == 5

\* boardCopy after the loop has replayed the first n records of history
RECURSIVE replayed(_, _, _)
replayed(initial, history, n) ==
    IF n = 0 THEN initial
    ELSE LET historicalMove == history[n]
         IN Put(Put(replayed(initial, history, n - 1),
                    historicalMove.endPos, pieceMoved(historicalMove.piece)),
                historicalMove.startPos, null)

\* boardCopy of the row of moveHistory[index], index counted from 0
boardCopy(initial, history, index) == replayed(initial, history, index + 1)

\* onClick of the row of moveHistory[index]; selectedHistoryMove and lastMove
\* only highlight
historyRowClick(index) ==
    /\ ~overlayShown
    /\ index \in 0..(Len(moveHistory) - 1)
    /\ board' = boardCopy(INITIAL_BOARD, moveHistory, index)
    /\ lastOp' = "historyRowClick"
    /\ priorBoard' = board
    /\ UNCHANGED <<turn, selectedPos, promotionState, moveHistory, capturedPieces,
                   isCheck, isCheckmate, INITIAL_BOARD, committed, undone, queried,
                   timers>>

\* the squares clicked to select a piece: e2, e4, e5, d7 and a7
replayOrigins == {<<6, 4>>, <<4, 4>>, <<3, 4>>, <<1, 3>>, <<1, 0>>}

InitReplay ==
    /\ board = InitialBoardValue
    /\ turn = "w"
    /\ selectedPos = noSelection
    /\ promotionState = noPromotion
    /\ moveHistory = <<>>
    /\ capturedPieces = [w |-> <<>>, b |-> <<>>]
    /\ isCheck = FALSE
    /\ isCheckmate = FALSE
    /\ INITIAL_BOARD = InitialBoardValue
    /\ committed = <<>>
    /\ lastOp = "init"
    /\ undone = noUndone
    /\ priorBoard = board
    /\ afterNewGame = 0
    /\ queried = noQuery
    /\ timers = <<>>

\* the games explored: moves, then one undo or one click on a row
NextReplay ==
    \/ /\ ~overlayShown
       /\ lastOp \in {"init", "makeMove"}
       /\ Len(committed) < MaxReplayPlies
       /\ counted
       /\ selectedPos' = noSelection
       /\ \E from \in replayOrigins :
              /\ selectedPos \in {noSelection, from}
              /\ \E to \in validMoves(from, board, turn, moveHistory) : makeMove(from, to)
    \/ counted /\ lastOp = "makeMove" /\ handleUndo
    \/ /\ counted
       /\ lastOp = "makeMove"
       /\ \E index \in 0..(Len(moveHistory) - 1) : historyRowClick(index)

SpecReplay == InitReplay /\ [][NextReplay]_vars

(***************************************************************************)
(* The move generators of the earlier variants of the application: the     *)
(* drag-and-drop variant, whose pieces have the types P, N, B, R, Q, K,    *)
(* and the intermediate variant, whose pieces have the types of the final  *)
(* one                                                                     *)
(***************************************************************************)
\* the while loops of isValidMove over the squares before the end square:
\* FALSE when one is occupied.  The rook's loop runs while either coordinate
\* differs from the end square's, the bishop's while both differ; the loops
\* are entered with the end square on the line walked, so they stay on the
\* board
RECURSIVE pathClear(_, _, _, _, _, _, _, _)
pathClear(b, currentRow, currentCol, rowStep, colStep, endRow, endCol, either) ==
    LET running == IF either
                   THEN currentRow # endRow \/ currentCol # endCol
                   ELSE currentRow # endRow /\ currentCol # endCol
    IN IF ~running THEN TRUE
       ELSE IF ~OnBoard(currentRow, currentCol) THEN FALSE
            ELSE IF ~IsNull(Sq(b, <<currentRow, currentCol>>)) THEN FALSE
                 ELSE pathClear(b, currentRow + rowStep, currentCol + colStep,
                                rowStep, colStep, endRow, endCol, either)

\* isValidMove(board, startPos, endPos, piece) of the drag-and-drop variant
isValidMoveDragDrop(b, startPos, endPos, piece) ==
    LET startRow == startPos[1]
        startCol == startPos[2]
        endRow == endPos[1]
        endCol == endPos[2]
        target == Sq(b, endPos)
        rowDiff == Abs(endRow - startRow)
        colDiff == Abs(endCol - startCol)
        rookLike ==
            LET rowStep == IF startRow = endRow THEN 0 ELSE IF endRow > startRow THEN 1 ELSE -1
                colStep == IF startCol = endCol THEN 0 ELSE IF endCol > startCol THEN 1 ELSE -1
            IN pathClear(b, startRow + rowStep, startCol + colStep, rowStep, colStep,
                         endRow, endCol, TRUE)
        bishopLike ==
            LET rowStep == IF endRow > startRow THEN 1 ELSE -1
                colStep == IF endCol > startCol THEN 1 ELSE -1
            IN pathClear(b, startRow + rowStep, startCol + colStep, rowStep, colStep,
                         endRow, endCol, FALSE)
    IN IF target.color = piece.color THEN FALSE
       ELSE CASE piece.type = "P" ->
                   LET direction == IF piece.color = "w" THEN -1 ELSE 1
                       startingRow == IF piece.color = "w" THEN 6 ELSE 1
                   IN \/ /\ startCol = endCol
                         /\ IsNull(target)
                         /\ \/ endRow = startRow + direction
                            \/ /\ startRow = startingRow
                               /\ endRow = startRow + 2 * direction
                               /\ IsNull(Sq(b, <<startRow + direction, startCol>>))
                      \/ /\ Abs(startCol - endCol) = 1
                         /\ endRow = startRow + direction
                         /\ target.color # piece.color
                         /\ ~IsNull(target)
              [] piece.type = "R" ->
                   IF startRow # endRow /\ startCol # endCol THEN FALSE ELSE rookLike
              [] piece.type = "N" ->
                   (rowDiff = 2 /\ colDiff = 1) \/ (rowDiff = 1 /\ colDiff = 2)
              [] piece.type = "B" ->
                   IF rowDiff # colDiff THEN FALSE ELSE bishopLike
              [] piece.type = "Q" ->
                   IF startRow = endRow \/ startCol = endCol THEN rookLike
                   ELSE IF rowDiff = colDiff THEN bishopLike
                        ELSE FALSE
              [] piece.type = "K" -> rowDiff <= 1 /\ colDiff <= 1
              [] OTHER -> FALSE

\* getPieceMoves(pos, piece) of the intermediate variant, board being its
\* board state: the text of getRawPieceMoves without en passant and castling
getPieceMovesIntermediate(pos, piece, b) ==
    LET row == pos[1]
        col == pos[2]
        direction == IF piece.color = "w" THEN -1 ELSE 1
        startRow == IF piece.color = "w" THEN 6 ELSE 1
        capture(offset) ==
            IF OnBoard(row + direction, col + offset)
                  /\ ~IsNull(Sq(b, <<row + direction, col + offset>>))
                  /\ Sq(b, <<row + direction, col + offset>>).color # piece.color
            THEN addMove(piece, b, row + direction, col + offset)
            ELSE {}
    IN CASE piece.type = "p" ->
              (IF IsNull(At(b, row + direction, col))
               THEN addMove(piece, b, row + direction, col) \cup
                    (IF row = startRow /\ IsNull(At(b, row + direction * 2, col))
                     THEN addMove(piece, b, row + direction * 2, col)
                     ELSE {})
               ELSE {})
              \cup capture(-1) \cup capture(1)
         [] piece.type = "n" ->
              UNION {addMove(piece, b, row + d[1], col + d[2]) : d \in knightMoves}
         [] piece.type \in {"b", "r", "q"} ->
              UNION {Ray(piece, b, row + d[1], col + d[2], d[1], d[2]) :
                        d \in directions(piece.type)}
         [] piece.type = "k" ->
              UNION {addMove(piece, b, row + d[1], col + d[2]) : d \in kingMoves}
         [] OTHER -> {}

\* the piece types of the drag-and-drop variant
dragDropType ==
    [t \in PieceType \cup {"null"} |->
        CASE t = "p" -> "P" [] t = "n" -> "N" [] t = "b" -> "B"
          [] t = "r" -> "R" [] t = "q" -> "Q" [] t = "k" -> "K" [] OTHER -> t]

\* a board of the drag-and-drop variant: { type, color } with its types
dragDropBoard(b) ==
    [r \in 1..8 |-> [c \in 1..8 |->
        IF IsNull(b[r][c]) THEN null
        ELSE Piece(dragDropType[b[r][c].type], b[r][c].color, "undefined", 0)]]

\* the boards the generators are called with: both kings, with or without
\* the rook h1, a piece on e4 or none, a pawn on e3 or d3 or none, and the
\* pawn boards; each with the piece types of either variant
variantBoards ==
    LET boards ==
            {MkBoard(<<7, 4>> :> Piece("k", "w", "false", 0)
                     @@ <<0, 4>> :> Piece("k", "b", "false", 0) @@ r @@ x @@ y) :
                r \in queryRooks,
                x \in {q \in queryPieces : DOMAIN q \subseteq {<<4, 4>>}},
                y \in {q \in queryPawns : q = <<>> \/ q[CHOOSE sq \in DOMAIN q : TRUE].color = "b"}}
            \cup queryPawnBoards
    IN boards \cup {dragDropBoard(b) : b \in boards}

InitVariants ==
    /\ board \in variantBoards
    /\ turn = "w"
    /\ selectedPos = noSelection
    /\ promotionState = noPromotion
    /\ moveHistory = <<>>
    /\ capturedPieces = [w |-> <<>>, b |-> <<>>]
    /\ isCheck = FALSE
    /\ isCheckmate = FALSE
    /\ INITIAL_BOARD = InitialBoardValue
    /\ committed = <<>>
    /\ lastOp = "init"
    /\ undone = noUndone
    /\ priorBoard = board
    /\ afterNewGame = 0
    /\ queried = noQuery
    /\ timers = <<>>

\* isValidMove(board, startPos, endPos, board[startPos]), as its callers in
\* the drag-and-drop variant call it
callIsValidMove(startPos, endPos) ==
    /\ queried.query = "none"
    /\ LET piece == Sq(board, startPos)
       IN /\ ~IsNull(piece)
          /\ queried' = Query("isValidMove", startPos, piece.color, FALSE,
                               isValidMoveDragDrop(board, startPos, endPos, piece),
                               {endPos})
          /\ UNCHANGED <<board, gameVars>>

callGetPieceMoves(pos) ==
    /\ queried.query = "none"
    /\ LET piece == Sq(board, pos)
       IN /\ ~IsNull(piece)
          /\ queried' = Query("getPieceMoves", pos, piece.color, FALSE, FALSE,
                               getPieceMovesIntermediate(pos, piece, board))
          /\ UNCHANGED <<board, gameVars>>

callGetRawPieceMoves(pos) ==
    /\ queried.query = "none"
    /\ LET piece == Sq(board, pos)
       IN /\ ~IsNull(piece)
          /\ queried' = Query("getRawPieceMoves", pos, piece.color, FALSE, FALSE,
                               getRawPieceMoves(pos, piece, board, undefinedMove))
          /\ UNCHANGED <<board, gameVars>>

NextVariants ==
    \/ \E startPos \in Pos, endPos \in Pos : callIsValidMove(startPos, endPos)
    \/ \E pos \in Pos : callGetPieceMoves(pos)
    \/ \E pos \in Pos : callGetRawPieceMoves(pos)

SpecVariants == InitVariants /\ [][NextVariants]_vars

(***************************************************************************)
(* Properties                                                              *)
(***************************************************************************)
kings(b, color) == {p \in Pos : Sq(b, p).type = "k" /\ Sq(b, p).color = color}

oneKingPerColour(b) == \A color \in Color : Cardinality(kings(b, color)) = 1

\* the board a legal move from <<from>> to <<to>> is committed as: by makeMove,
\* or by handlePromotion(pieceType) for a pawn reaching the last row
committedBoard(b, from, to, pieceType) ==
    IF isPromotionMove(b, from, to)
    THEN handlePromotionBoard(b, PromotionState(from, to, Sq(b, from).color), pieceType)
    ELSE makeMoveBoard(b, from, to)

\* C1: on a board with one king per colour, committing any destination that
\* getLegalMoves returns for a piece of the side to move (makeMove with its en
\* passant removal and rook relocation, handlePromotion for a promotion) gives
\* a board on which the mover is not in check.
C1_LegalMoveLeavesKingSafe ==
    oneKingPerColour(board) =>
        \A from \in Pos :
            \A to \in validMoves(from, board, turn, moveHistory) :
                \A pieceType \in promotionChoices :
                    ~isInCheck(committedBoard(board, from, to, pieceType), turn)

noLegalMove(b, color) ==
    \A p \in Pos :
        Sq(b, p).color = color => getLegalMoves(p, Sq(b, p), b, undefinedMove) = {}

isStalemate(b, color) == ~isInCheck(b, color) /\ noLegalMove(b, color)

\* C2: isInCheckmate(board, c) is true exactly when c is in check and no piece
\* of c has a legal move; a stalemate is not reported as checkmate.
C2_CheckmateIffCheckAndNoLegalMove ==
    \A color \in Color :
        HasKing(board, color) =>
            /\ isInCheckmate(board, color) <=>
                   (isInCheck(board, color) /\ noLegalMove(board, color))
            /\ isStalemate(board, color) => ~isInCheckmate(board, color)

loneKing(b, color) ==
    \A p \in Pos : Sq(b, p).color = color => Sq(b, p).type = "k"

\* the lone black king on its back rank is mated by queen and rook, and
\* makeMove has reported it
C2_BackRankMate ==
    /\ lastOp = "makeMove"
    /\ turn = "b"
    /\ loneKing(board, "b")
    /\ findKing(board, "b")[1] = 0
    /\ isInCheck(board, "b")
    /\ isInCheckmate(board, "b")
    /\ isCheckmate

\* a position makeMove has produced in which the side to move is stalemated
C2_Stalemate ==
    /\ lastOp = "makeMove"
    /\ HasKing(board, turn)
    /\ isStalemate(board, turn)

\* C3: every destination getLegalMoves returns is returned by getRawPieceMoves
\* for the same position, piece, board and lastMove.
C3_LegalSubsetOfRaw ==
    \A p \in Pos :
        \A lastMove \in {undefinedMove, historyLastMove(moveHistory)} :
            (~IsNull(Sq(board, p)) /\ ~getLegalMovesThrows(p, Sq(board, p), board, lastMove))
                => getLegalMoves(p, Sq(board, p), board, lastMove)
                      \subseteq getRawPieceMoves(p, Sq(board, p), board, lastMove)

\* a pinned piece: getLegalMoves returns strictly fewer moves than the raw ones
C3_SomeRawMoveFiltered ==
    /\ lastOp = "makeMove"
    /\ \E p \in Pos :
          /\ Sq(board, p).color = turn
          /\ ~getPieceMovesThrows(p, Sq(board, p), board, moveHistory)
          /\ getPieceMoves(p, Sq(board, p), board, moveHistory) # {}
          /\ getPieceMoves(p, Sq(board, p), board, moveHistory)
                # getRawPieceMoves(p, Sq(board, p), board, historyLastMove(moveHistory))

\* square by square: same piece, same colour, same hasMoved flag, an absent
\* flag counting as false
samePiece(x, y) ==
    /\ x.type = y.type
    /\ x.color = y.color
    /\ Truthy(x.hasMoved) = Truthy(y.hasMoved)

sameBoard(x, y) == \A p \in Pos : samePiece(Sq(x, p), Sq(y, p))

\* handleUndo has just reverted the non-promotion move that makeMove committed
\* right before it
undoneRightAfterMove == lastOp = "handleUndo" /\ undone.immediate

\* C4: makeMove of a legal non-promotion move followed immediately by
\* handleUndo gives back the pre-move board square by square, hasMoved flags
\* included.
C4_UndoRestoresBoard ==
    undoneRightAfterMove => sameBoard(board, undone.before)

\* the move from <<from>> to <<to>> on board b is a pawn taking en passant the
\* opposing pawn that stands beside it, on the file of the destination
capturesEnPassant(b, from, to) ==
    /\ Sq(b, from).type = "p"
    /\ from[2] # to[2]
    /\ IsNull(Sq(b, to))
    /\ Sq(b, <<from[1], to[2]>>).type = "p"
    /\ Sq(b, <<from[1], to[2]>>).color = Opp(Sq(b, from).color)

\* C5: the Move recorded for an en passant capture carries the captured pawn,
\* and after makeMove and handleUndo the captured pawn is back on its square
\* (row of the origin, column of the destination), the destination is empty
\* and the capturing pawn is back on its origin.
C5_UndoRestoresEnPassantPawn ==
    /\ (lastOp = "makeMove"
        /\ capturesEnPassant(committed[Len(committed)].board,
                             committed[Len(committed)].from,
                             committed[Len(committed)].to))
       => LET c == committed[Len(committed)]
          IN samePiece(moveHistory[Len(moveHistory)].capturedPiece,
                       Sq(c.board, <<c.from[1], c.to[2]>>))
    /\ (undoneRightAfterMove
        /\ capturesEnPassant(undone.before, undone.move.startPos, undone.move.endPos))
       => LET from == undone.move.startPos
              to == undone.move.endPos
          IN /\ samePiece(Sq(board, <<from[1], to[2]>>),
                          Sq(undone.before, <<from[1], to[2]>>))
             /\ IsNull(Sq(board, to))
             /\ Sq(board, from).type = "p"
             /\ Sq(board, from).color = undone.move.piece.color

undoneCastling ==
    /\ undoneRightAfterMove
    /\ undone.move.piece.type = "k"
    /\ Abs(undone.move.endPos[2] - undone.move.startPos[2]) = 2

\* C6: after a castling move committed by makeMove and reverted by handleUndo
\* the king is on its origin and the rook on its corner, the squares they had
\* castled to are empty, neither has hasMoved set, and the same castling move
\* is again a legal move of the king.
C6_UndoRestoresCastling ==
    undoneCastling =>
        LET from == undone.move.startPos
            to == undone.move.endPos
            corner == <<from[1], IF to[2] = 6 THEN 7 ELSE 0>>
            rookTo == <<from[1], IF to[2] = 6 THEN 5 ELSE 3>>
        IN /\ Sq(board, from).type = "k"
           /\ Sq(board, from).color = undone.move.piece.color
           /\ ~Truthy(Sq(board, from).hasMoved)
           /\ Sq(board, corner).type = "r"
           /\ Sq(board, corner).color = undone.move.piece.color
           /\ ~Truthy(Sq(board, corner).hasMoved)
           /\ IsNull(Sq(board, to))
           /\ IsNull(Sq(board, rookTo))
           /\ to \in validMoves(from, board, turn, moveHistory)

\* a queenside castling has been committed and undone
C6_CastlingUndone ==
    /\ undoneCastling
    /\ undone.move.endPos[2] = 2
    /\ Sq(board, undone.move.startPos).type = "k"

\* a kingside castling has been committed and undone
C6_KingsideCastlingUndone ==
    /\ undoneCastling
    /\ undone.move.endPos[2] = 6
    /\ Sq(board, undone.move.startPos).type = "k"

\* the en passant destinations among the legal moves of the pawn on <<from>>:
\* diagonal moves onto an empty square
enPassantDestinations(from) ==
    {to \in validMoves(from, board, turn, moveHistory) :
        Sq(board, from).type = "p" /\ to[2] # from[2] /\ IsNull(Sq(board, to))}

\* C7: a pawn's legal moves contain an en passant destination only if the
\* move committed immediately before was a two-square advance of an opposing
\* pawn that landed beside that pawn, on the file of the destination.
C7_EnPassantOnlyAfterDoubleAdvance ==
    \A from \in Pos :
        \A to \in enPassantDestinations(from) :
            /\ Len(committed) > 0
            /\ LET c == committed[Len(committed)]
               IN /\ c.piece.type = "p"
                  /\ c.piece.color = Opp(Sq(board, from).color)
                  /\ c.from[2] = c.to[2]
                  /\ Abs(c.from[1] - c.to[1]) = 2
                  /\ c.to = <<from[1], to[2]>>

\* the castling destinations among the legal moves of the king on <<from>>
castlingDestinations(from) ==
    {to \in validMoves(from, board, turn, moveHistory) :
        Sq(board, from).type = "k"
        /\ to \in castlingMoves(from[1], Sq(board, from), board)}

\* the rook square castlingMoves tests for the destination <<to>>
castlingRookSquare(to) == <<to[1], IF to[2] = 6 THEN 7 ELSE 0>>

\* C8: a castling destination is offered to a king only if no committed and
\* not undone move has relocated that king or the rook of that side.
C8_CastlingOnlyIfNeverMoved ==
    \A from \in Pos :
        \A to \in castlingDestinations(from) :
            /\ Sq(board, from).moves = 0
            /\ Sq(board, castlingRookSquare(to)).moves = 0

sameKind(x, y) == x.type = y.type /\ x.color = y.color

\* C9: every committed move, a promotion completed by handlePromotion
\* included, has appended exactly one Move to moveHistory, and handleUndo has
\* taken the last Move off and put back what stood on the origin and on the
\* destination of the most recently committed move: after a promotion the
\* pawn is back on its origin and the promoted piece is gone.
C9_OneRecordPerCommittedMove ==
    /\ lastOp \in {"makeMove", "handlePromotion"} =>
          /\ Len(moveHistory) = Len(committed)
          /\ moveHistory[Len(moveHistory)].startPos = committed[Len(committed)].from
          /\ moveHistory[Len(moveHistory)].endPos = committed[Len(committed)].to
    /\ lastOp = "handleUndo" =>
          /\ Len(moveHistory) = Len(committed)
          /\ sameKind(Sq(board, undone.last.from),
                      Sq(undone.last.board, undone.last.from))
          /\ sameKind(Sq(board, undone.last.to),
                      Sq(undone.last.board, undone.last.to))

\* C10, first half: a step that makes a promotion pending is a makeMove of a
\* pawn of the side to move onto row 0 or 7 that leaves board, turn and
\* moveHistory as they were; makeMove commits no pawn move onto row 0 or 7.
promotionDeferred ==
    /\ (~promotionState.pending /\ promotionState'.pending) =>
          /\ board' = board /\ turn' = turn /\ moveHistory' = moveHistory
          /\ promotionState'.to[1] \in {0, 7}
          /\ promotionState'.to \in
                 validMoves(promotionState'.from, board, turn, moveHistory)
          /\ Sq(board, promotionState'.from).type = "p"
          /\ promotionState'.color = Sq(board, promotionState'.from).color
    /\ (lastOp' \in {"makeMove", "makeMoveThrew"} /\ Len(committed') > Len(committed)) =>
          ~(committed'[Len(committed')].piece.type = "p"
            /\ committed'[Len(committed')].to[1] \in {0, 7})

\* C10, second half: the handlePromotion that follows puts a piece of the
\* chosen kind and of the pawn's colour on `to`, empties `from`, changes no
\* other square, clears promotionState and gives the turn to the opponent.
promotionResolved ==
    (promotionState.pending /\ ~promotionState'.pending) =>
        /\ Sq(board', promotionState.to).type \in promotionChoices
        /\ Sq(board', promotionState.to).type = committed'[Len(committed')].pieceType
        /\ Sq(board', promotionState.to).color = promotionState.color
        /\ IsNull(Sq(board', promotionState.from))
        /\ \A p \in Pos \ {promotionState.from, promotionState.to} :
               Sq(board', p) = Sq(board, p)
        /\ turn' = Opp(promotionState.color)
        /\ promotionState' = noPromotion

\* C10: a legal pawn move to the farthest row only records promotionState;
\* handlePromotion then places the chosen piece and passes the turn.
C10_PromotionInTwoCalls == [][promotionDeferred /\ promotionResolved]_vars

\* handlePromotion has put a queen on the last row in place of the white pawn
C10_PawnPromoted ==
    /\ lastOp = "handlePromotion"
    /\ ~promotionState.pending
    /\ turn = "b"
    /\ \E c \in Rows : Sq(board, <<0, c>>).type = "q" /\ Sq(board, <<0, c>>).color = "w"
    /\ committed[Len(committed)].piece.type = "p"
    /\ IsNull(Sq(board, committed[Len(committed)].from))

\* the last committed move was a two-square advance of a pawn
doubleAdvanced ==
    /\ lastOp = "makeMove"
    /\ committed[Len(committed)].piece.type = "p"
    /\ committed[Len(committed)].from[2] = committed[Len(committed)].to[2]
    /\ Abs(committed[Len(committed)].from[1] - committed[Len(committed)].to[1]) = 2

\* the pawns of the side to move that stand beside the pawn on <<landed>>
pawnsBeside(landed) ==
    {p \in Pos : /\ p[1] = landed[1]
                 /\ Abs(p[2] - landed[2]) = 1
                 /\ Sq(board, p).type = "p"
                 /\ Sq(board, p).color = turn}

\* the square diagonally forward of the pawn on p, on the file of <<landed>>
passedSquare(p, landed) ==
    <<p[1] + (IF Sq(board, p).color = "w" THEN -1 ELSE 1), landed[2]>>

\* C11: after an opposing pawn's two-square advance that lands beside a pawn,
\* that pawn's legal moves include the square diagonally forward on the file
\* of the advanced pawn, unless the capture leaves its own king attacked, and
\* makeMove of it puts the capturing pawn on the destination and empties the
\* square the advanced pawn landed on.
C11_EnPassantOfferedAndCommitted ==
    doubleAdvanced =>
        LET landed == committed[Len(committed)].to
        IN \A p \in pawnsBeside(landed) :
               LET to == passedSquare(p, landed)
                   newBoard == makeMoveBoard(board, p, to)
               IN /\ Sq(newBoard, to).type = "p"
                  /\ Sq(newBoard, to).color = turn
                  /\ IsNull(Sq(newBoard, landed))
                  /\ IsNull(Sq(newBoard, p))
                  /\ (HasKing(board, turn) /\ ~isInCheck(newBoard, turn))
                        => to \in getPieceMoves(p, Sq(board, p), board, moveHistory)

\* the piece on p attacks <<target>> by the rules of chess: a pawn attacks the
\* two squares diagonally forward whatever stands on them, a king the squares
\* next to it, the other pieces the squares they can move to
attacks(b, p, target) ==
    LET piece == Sq(b, p)
    IN CASE piece.type = "p" ->
              /\ target[1] = p[1] + (IF piece.color = "w" THEN -1 ELSE 1)
              /\ Abs(target[2] - p[2]) = 1
         [] piece.type = "k" ->
              <<target[1] - p[1], target[2] - p[2]>> \in kingMoves
         [] piece.type \in {"n", "b", "r", "q"} ->
              target \in getRawPieceMoves(p, piece, b, undefinedMove)
         [] OTHER -> FALSE

attacked(b, target, byColor) ==
    \E p \in Pos : Sq(b, p).color = byColor /\ attacks(b, p, target)

homeRow(color) == IF color = "w" THEN 7 ELSE 0

\* the conditions of castling to column toCol (6 or 2) for the king of <<color>>
\* on board b: king on its home square and rook on the corner of that side,
\* neither with hasMoved set, nothing between them, the king not in check and
\* the square it crosses and the one it lands on not attacked
castlingAllowed(b, color, toCol) ==
    LET row == homeRow(color)
        corner == <<row, IF toCol = 6 THEN 7 ELSE 0>>
        between == IF toCol = 6 THEN {5, 6} ELSE {1, 2, 3}
        crossed == IF toCol = 6 THEN 5 ELSE 3
    IN /\ Sq(b, <<row, 4>>).type = "k"
       /\ Sq(b, <<row, 4>>).color = color
       /\ ~Truthy(Sq(b, <<row, 4>>).hasMoved)
       /\ Sq(b, corner).type = "r"
       /\ Sq(b, corner).color = color
       /\ ~Truthy(Sq(b, corner).hasMoved)
       /\ \A c \in between : IsNull(Sq(b, <<row, c>>))
       /\ \A c \in {4, crossed, toCol} : ~attacked(b, <<row, c>>, Opp(color))

\* makeMove has just committed a castling whose conditions held
castled ==
    /\ lastOp = "makeMove"
    /\ committed[Len(committed)].piece.type = "k"
    /\ committed[Len(committed)].from[2] = 4
    /\ committed[Len(committed)].to[2] \in {2, 6}
    /\ castlingAllowed(committed[Len(committed)].board,
                       committed[Len(committed)].piece.color,
                       committed[Len(committed)].to[2])

\* C12: when the conditions of castling hold the king's legal moves include
\* column 6 (resp. 2), and makeMove of it puts the king on column 6 and the
\* rook on column 5 (resp. 2 and 3), empties the king's origin and the
\* corner, and leaves both pieces with hasMoved = true.
C12_CastlingOfferedAndCommitted ==
    /\ \A color \in Color : \A toCol \in {2, 6} :
           castlingAllowed(board, color, toCol) =>
               <<homeRow(color), toCol>> \in
                   getPieceMoves(<<homeRow(color), 4>>,
                                 Sq(board, <<homeRow(color), 4>>), board, moveHistory)
    /\ castled =>
           LET c == committed[Len(committed)]
               row == c.from[1]
               rookCol == IF c.to[2] = 6 THEN 5 ELSE 3
               cornerCol == IF c.to[2] = 6 THEN 7 ELSE 0
           IN /\ Sq(board, c.to).type = "k"
              /\ Sq(board, c.to).color = c.piece.color
              /\ Truthy(Sq(board, c.to).hasMoved)
              /\ Sq(board, <<row, rookCol>>).type = "r"
              /\ Sq(board, <<row, rookCol>>).color = c.piece.color
              /\ Truthy(Sq(board, <<row, rookCol>>).hasMoved)
              /\ IsNull(Sq(board, c.from))
              /\ IsNull(Sq(board, <<row, cornerCol>>))

\* a kingside castling has been committed
C12_CastledKingside ==
    /\ castled
    /\ committed[Len(committed)].to[2] = 6
    /\ Sq(board, <<committed[Len(committed)].from[1], 5>>).type = "r"

\* a queenside castling has been committed
C12_CastledQueenside ==
    /\ castled
    /\ committed[Len(committed)].to[2] = 2
    /\ Sq(board, <<committed[Len(committed)].from[1], 3>>).type = "r"

\* C13: getLegalMoves returns no castling destination for a king that is in
\* check, nor when the square the king crosses or the square it lands on is
\* attacked by the opponent.
C13_NoCastlingThroughAttack ==
    \A color \in Color : \A toCol \in {2, 6} :
        LET from == <<homeRow(color), 4>>
            to == <<homeRow(color), toCol>>
            crossed == <<homeRow(color), IF toCol = 6 THEN 5 ELSE 3>>
        IN (/\ Sq(board, from).type = "k"
            /\ Sq(board, from).color = color
            /\ ~getPieceMovesThrows(from, Sq(board, from), board, moveHistory)
            /\ to \in castlingMoves(from[1], Sq(board, from), board)
            /\ to \in getPieceMoves(from, Sq(board, from), board, moveHistory))
           => /\ ~attacked(board, from, Opp(color))
              /\ ~attacked(board, crossed, Opp(color))
              /\ ~attacked(board, to, Opp(color))

\* the step is a run of makeMove, handlePromotion or handleUndo
boardHandlerRan ==
    lastOp' \in {"makeMove", "makeMovePending", "makeMoveThrew",
                 "handlePromotion", "handleUndo"}

\* C14: makeMove, handlePromotion and handleUndo do not modify the board they
\* start from, nor INITIAL_BOARD: once the handler has returned both have the
\* same piece, colour and hasMoved flag on every square as before the call.
C14_PriorBoardNotModified ==
    [][boardHandlerRan =>
          /\ sameBoard(priorBoard', board)
          /\ sameBoard(INITIAL_BOARD', INITIAL_BOARD)]_vars

\* the moves of the side to move that get its king out of check once they are
\* committed: the moves of its pieces by the rules of movement, en passant
\* after the last recorded move included
escapes(b, color, history) ==
    {m \in Pos \X Pos :
        /\ Sq(b, m[1]).color = color
        /\ m[2] \in getRawPieceMoves(m[1], Sq(b, m[1]), b, historyLastMove(history))
        /\ \E pieceType \in promotionChoices :
               ~isInCheck(committedBoard(b, m[1], m[2], pieceType), color)}

\* C15: when makeMove declares checkmate for the side to move, that side has
\* no move that gets its king out of check when it is applied.
C15_CheckmateHasNoEscape ==
    (lastOp = "makeMove" /\ isCheckmate) => escapes(board, turn, moveHistory) = {}

\* C16: each colour has exactly one king on the board, no move offered to
\* the side to move captures a king, and makeMove has not failed in isInCheck
\* for want of a king.
C16_OneKingPerColour ==
    /\ oneKingPerColour(board)
    /\ \A from \in Pos :
           \A to \in validMoves(from, board, turn, moveHistory) :
               Sq(board, to).type # "k"
    /\ lastOp # "makeMoveThrew"

\* C17: a piece on the board has hasMoved = true only if a committed, not
\* undone move of the current game relocated it; right after New Game no
\* piece has hasMoved = true.
C17_HasMovedOnlyIfMoved ==
    \A p \in Pos : Truthy(Sq(board, p).hasMoved) => Sq(board, p).moves > 0

\* a click made with a piece selected has been rejected
clickRejected ==
    selectedPos # noSelection /\ lastOp' = "handleSquareClick"

\* a click made with a piece selected has run makeMove
clickMoved ==
    /\ selectedPos # noSelection
    /\ lastOp' \in {"makeMove", "makeMovePending", "makeMoveThrew"}

\* the move makeMove was called with in this step
movedFrom ==
    IF lastOp' = "makeMovePending" THEN promotionState'.from
    ELSE committed'[Len(committed')].from

movedTo ==
    IF lastOp' = "makeMovePending" THEN promotionState'.to
    ELSE committed'[Len(committed')].to

\* C18: a click on a square that is not a legal destination of the selected
\* piece, or made while the selected piece is not of the side to move, only
\* clears the selection: board, turn, moveHistory, capturedPieces and
\* promotionState stay as they are and makeMove is not run; makeMove runs
\* only for a legal destination of a selected piece of the side to move.
C18_IllegalClickOnlyClearsSelection ==
    [][/\ clickRejected =>
             /\ selectedPos' = noSelection
             /\ UNCHANGED <<board, turn, moveHistory, capturedPieces, promotionState>>
       /\ clickMoved =>
             /\ movedFrom = selectedPos
             /\ Sq(board, selectedPos).color = turn
             /\ movedTo \in getPieceMoves(selectedPos, Sq(board, selectedPos),
                                           board, moveHistory)
             /\ selectedPos' = noSelection]_vars

\* a click has been rejected while the selected piece was not of the side to
\* move: the selection was made before an undo
C18_StaleSelectionRejected ==
    /\ lastOp = "handleSquareClick"
    /\ selectedPos = noSelection
    /\ undone.defined

\* C19: handlePromotion called with a king or a pawn while a promotion is
\* pending places no piece: after every handlePromotion the promotion square
\* holds a queen, a rook, a bishop or a knight.
C19_PromotionOnlyToQueenRookBishopKnight ==
    lastOp = "handlePromotion" =>
        Sq(board, committed[Len(committed)].to).type \in promotionChoices

\* a pawn stands on row 0 or row 7 of b
pawnOnLastRow(b) ==
    \E p \in Pos : p[1] \in {0, 7} /\ Sq(b, p).type = "p"

\* C20: in every committed board reached by play (the board after makeMove,
\* handlePromotion or handleUndo), no pawn stands on row 0 or row 7.
C20_NoPawnOnLastRow ==
    lastOp \in {"makeMove", "handlePromotion", "handleUndo"} =>
        ~pawnOnLastRow(board)

\* a move has been undone after a promotion: the promoted piece stands on the
\* last row and the board holds a pawn less than the position started with
C20_UndoneAfterPromotion ==
    /\ lastOp = "handleUndo"
    /\ undone.last.pieceType \in promotionChoices
    /\ undone.last.to[1] \in {0, 7}
    /\ Sq(board, undone.last.to).type = undone.last.pieceType

\* C21: isInCheck(board, c) and isInCheckmate(board, c) throw 'king not
\* found' exactly when the board holds no king of colour c, and return a
\* boolean otherwise.
C21_ThrowsIffNoKing ==
    queried.query \in {"isInCheck", "isInCheckmate"} =>
        (queried.threw <=> kings(board, queried.color) = {})

\* isInCheckmate has thrown for a side without a king whose opponent has one
C21_CheckmateQueryThrew ==
    /\ queried.query = "isInCheckmate"
    /\ queried.threw
    /\ kings(board, Opp(queried.color)) # {}

\* isInCheckmate has returned true
C21_CheckmateQueryReturnedTrue ==
    queried.query = "isInCheckmate" /\ ~queried.threw /\ queried.bool

\* C22: getLegalMoves, isInCheck and isInCheckmate are pure queries: a call
\* changes neither the board passed to it nor any other game state, and the
\* same call made again returns the same result.
C22_QueriesArePure ==
    [][queried'.query # "none" =>
          /\ board' = board
          /\ UNCHANGED gameVars
          /\ queried'.calls = 2 =>
                /\ queried'.threw = queried.threw
                /\ queried'.bool = queried.bool
                /\ queried'.moves = queried.moves]_vars

\* getLegalMoves has been called twice on a piece, the list it returned is
\* shorter than the list of raw moves: simulateMove has run on a move that
\* leaves the king attacked
C22_LegalMovesCalledTwice ==
    /\ queried.query = "getLegalMoves"
    /\ queried.calls = 2
    /\ ~queried.threw
    /\ queried.moves # {}
    /\ queried.moves # getRawPieceMoves(queried.pos, Sq(board, queried.pos), board,
                                        undefinedMove)

\* the rays of the sliding pieces of b: <<square, direction>>
slidingRays(b) ==
    {<<p, d>> \in Pos \X (rookDirections \cup bishopDirections) :
        /\ Sq(b, p).type \in {"b", "r", "q"}
        /\ d \in directions(Sq(b, p).type)}

\* C23: every engine query terminates: no function of the file is reached
\* from itself by a chain of calls, the attack test calls the raw move
\* generator and never the legal-move filter, and every sliding loop stops,
\* at the board edge or the first occupied square, within 7 iterations.
C23_QueriesTerminate ==
    /\ \A f \in functions :
           f \notin calledFrom({c[2] : c \in {x \in calls : x[1] = f}},
                               Cardinality(functions))
    /\ "getLegalMoves" \notin calledFrom({"isPositionUnderAttack"},
                                          Cardinality(functions))
    /\ \A ray \in slidingRays(board) :
           rayIterations(board, ray[1][1] + ray[2][1], ray[1][2] + ray[2][2],
                         ray[2][1], ray[2][2], 0) \in 0..7

\* isInCheckmate has returned on a board whose rook runs a ray of 7 squares
C23_LongestRayWalked ==
    /\ queried.query = "isInCheckmate"
    /\ ~queried.threw
    /\ \E ray \in slidingRays(board) :
           rayIterations(board, ray[1][1] + ray[2][1], ray[1][2] + ray[2][2],
                         ray[2][1], ray[2][2], 0) = 7

\* a destination next to p, or two files from p on its row
oneSquareOrTwoFiles(p, to) ==
    \/ Abs(to[1] - p[1]) <= 1 /\ Abs(to[2] - p[2]) <= 1
    \/ to[1] = p[1] /\ Abs(to[2] - p[2]) = 2

\* no king of b is offered another destination
noFarKingMoves(b, history) ==
    \A p \in Pos :
        (Sq(b, p).type = "k" /\ ~getPieceMovesThrows(p, Sq(b, p), b, history)) =>
            \A to \in getPieceMoves(p, Sq(b, p), b, history) :
                oneSquareOrTwoFiles(p, to)

\* C24: in every state reached by moves and undos, each destination in a
\* king's legal moves is one of the 8 squares next to the king or lies two
\* files from it on its row, and a committed king move of two files or more
\* has relocated the rook from the corner to the square the king crossed.
C24_KingMovesOneSquareOrCastles ==
    /\ noFarKingMoves(board, moveHistory)
    /\ (lastOp = "makeMove" /\ committed[Len(committed)].piece.type = "k"
           /\ Abs(committed[Len(committed)].to[2] - committed[Len(committed)].from[2]) >= 2) =>
           LET c == committed[Len(committed)]
           IN /\ Sq(board, <<c.from[1], (c.from[2] + c.to[2]) \div 2>>).type = "r"
              /\ IsNull(Sq(board, <<c.from[1], IF c.to[2] > c.from[2] THEN 7 ELSE 0>>))

\* C25: for an empty square s, isPositionUnderAttack(s, c, board) is true
\* exactly when a piece of colour c could capture an enemy piece standing on
\* s: a pawn attacks its two forward diagonal squares, occupied or not, and
\* not the square straight ahead of it.
C25_AttackTestIsCaptureTest ==
    (queried.query = "isPositionUnderAttack" /\ IsNull(Sq(board, queried.pos))) =>
        (queried.bool <=> attacked(board, queried.pos, queried.color))

\* the piece moved by the record stands on the square it moved to
recordOnBoard(b, move) ==
    /\ Sq(b, move.endPos).type = move.piece.type
    /\ Sq(b, move.endPos).color = move.piece.color

\* C26: when moves are clicked within the 300 ms delay, no update is lost:
\* the same side never has two records in a row in moveHistory, and once the
\* callbacks have run the move of the record before the last is still on the
\* board that the last makeMove has set.
C26_DelayedMovesLoseNoUpdate ==
    /\ \A i \in 1..(Len(moveHistory) - 1) :
           moveHistory[i].piece.color # moveHistory[i + 1].piece.color
    /\ (waiting = {} /\ lastOp = "makeMove" /\ Len(moveHistory) >= 2) =>
           \/ recordOnBoard(board, moveHistory[Len(moveHistory) - 1])
           \/ moveHistory[Len(moveHistory)].endPos =
                  moveHistory[Len(moveHistory) - 1].endPos

\* C27: after every committed move, a promotion resolved by handlePromotion
\* included, and after every undo, isCheck is isInCheck(board, turn) and
\* isCheckmate is isInCheckmate(board, turn) for the side now to move.
C27_CheckFlagsMatchBoard ==
    (lastOp \in {"makeMove", "handlePromotion", "handleUndo"}
        /\ ~isInCheckmateThrows(board, turn)) =>
        /\ isCheck = isInCheck(board, turn)
        /\ isCheckmate = isInCheckmate(board, turn)

\* C28: turn order is strict: makeMove, or handlePromotion for a promotion,
\* commits a move of the side whose turn it is and passes the turn; handleUndo
\* passes it back to the side whose move it takes back; consecutive records
\* of moveHistory belong to pieces of opposite colours.
C28_TurnOrderStrict ==
    [][/\ (lastOp' = "makeMove" /\ Len(moveHistory') > Len(moveHistory)) =>
             /\ moveHistory'[Len(moveHistory')].piece.color = turn
             /\ turn' = Opp(turn)
       /\ (lastOp' = "handlePromotion" /\ promotionState.pending) =>
             /\ promotionState.color = turn
             /\ turn' = Opp(turn)
       /\ (lastOp' = "handleUndo" /\ Len(moveHistory') < Len(moveHistory)) =>
             /\ turn' = Opp(turn)
             /\ moveHistory[Len(moveHistory)].piece.color = turn'
       /\ \A i \in 1..(Len(moveHistory') - 1) :
             moveHistory'[i].piece.color # moveHistory'[i + 1].piece.color]_vars

\* C29: right after New Game the board is the standard starting position
\* with every king and rook unmoved, white is to move, moveHistory and the
\* captured lists are empty and both check flags are false.
C29_NewGameRestoresInitialState ==
    lastOp = "newGame" =>
        /\ \A p \in Pos :
              /\ sameKind(Sq(board, p), Sq(InitialBoardValue, p))
              /\ Sq(board, p).type \in {"k", "r"} => ~Truthy(Sq(board, p).hasMoved)
        /\ turn = "w"
        /\ moveHistory = <<>>
        /\ capturedPieces = [w |-> <<>>, b |-> <<>>]
        /\ ~isCheck /\ ~isCheckmate

\* the unit steps of a bishop (both coordinates change), of a rook (one
\* does) and of a queen (either)
raySteps(type) ==
    {d \in (-1..1) \X (-1..1) :
        /\ d # <<0, 0>>
        /\ type = "b" => d[1] # 0 /\ d[2] # 0
        /\ type = "r" => d[1] = 0 \/ d[2] = 0}

\* the squares a bishop, rook or queen on p reaches on b: k steps along one
\* ray with every square before the last empty and no piece of its own
\* colour on the last
rayTargets(b, p) ==
    {q \in {<<p[1] + k * d[1], p[2] + k * d[2]>> :
                k \in 1..7, d \in raySteps(Sq(b, p).type)} \cap Pos :
        /\ \E k \in 1..7, d \in raySteps(Sq(b, p).type) :
              /\ q = <<p[1] + k * d[1], p[2] + k * d[2]>>
              /\ \A j \in 1..(k - 1) :
                    IsNull(Sq(b, <<p[1] + j * d[1], p[2] + j * d[2]>>))
        /\ IsNull(Sq(b, q)) \/ Sq(b, q).color # Sq(b, p).color}

\* the bishops, rooks and queens of b
sliders(b) == {p \in Pos : Sq(b, p).type \in {"b", "r", "q"}}

\* C30: for a bishop, rook or queen getRawPieceMoves returns exactly the
\* squares reached along its rays up to the board edge or the first occupied
\* square, that square included only when it holds a piece of the other
\* colour.
C30_SlidingMovesFollowRays ==
    \A p \in sliders(board) :
        getRawPieceMoves(p, Sq(board, p), board, undefinedMove) = rayTargets(board, p)

\* getLegalMoves has been called for a slider that has, next to it along its
\* rays, a piece of its own colour, and that can capture a piece further away
C30_SliderBlockedAndCapturing ==
    /\ queried.query = "getLegalMoves"
    /\ ~queried.threw
    /\ queried.pos \in sliders(board)
    /\ \E d \in raySteps(Sq(board, queried.pos).type) :
          LET q == <<queried.pos[1] + d[1], queried.pos[2] + d[2]>>
          IN q \in Pos /\ ~IsNull(Sq(board, q))
             /\ Sq(board, q).color = Sq(board, queried.pos).color
    /\ \E q \in rayTargets(board, queried.pos) :
          /\ ~IsNull(Sq(board, q))
          /\ Abs(q[1] - queried.pos[1]) > 1 \/ Abs(q[2] - queried.pos[2]) > 1

\* the squares a pawn on p may go to on b when no en passant applies: one
\* step forward onto an empty square, two from its starting row over an empty
\* square onto an empty square, one step diagonally forward onto a piece of
\* the other colour
pawnTargets(b, p) ==
    LET color == Sq(b, p).color
        forward == IF color = "w" THEN -1 ELSE 1
        start == IF color = "w" THEN 6 ELSE 1
        one == <<p[1] + forward, p[2]>>
        two == <<p[1] + 2 * forward, p[2]>>
    IN {q \in {one} \cap Pos : IsNull(Sq(b, q))}
       \cup {q \in {two} \cap Pos :
                p[1] = start /\ IsNull(Sq(b, one)) /\ IsNull(Sq(b, q))}
       \cup {q \in {<<one[1], p[2] - 1>>, <<one[1], p[2] + 1>>} \cap Pos :
                ~IsNull(Sq(b, q)) /\ Sq(b, q).color # color}

\* the pawns of b
pawns(b) == {p \in Pos : Sq(b, p).type = "p"}

\* C31: for a pawn with no en passant context getRawPieceMoves returns
\* exactly the empty square one step forward, the empty square two steps
\* forward from the starting row over an empty square, and the forward
\* diagonal squares that hold a piece of the other colour.
C31_PawnMovesForwardCapturesDiagonally ==
    \A p \in pawns(board) :
        getRawPieceMoves(p, Sq(board, p), board, undefinedMove) = pawnTargets(board, p)

\* getLegalMoves has been called for a pawn on its starting row that may
\* step one square but not two, captures on one diagonal and has a piece of
\* its own colour on the other
C31_PawnBlockedAndCapturing ==
    /\ queried.query = "getLegalMoves"
    /\ ~queried.threw
    /\ queried.pos \in pawns(board)
    /\ queried.pos[1] = (IF queried.color = "w" THEN 6 ELSE 1)
    /\ Cardinality(pawnTargets(board, queried.pos)) = 2
    /\ \E q \in pawnTargets(board, queried.pos) : q[2] # queried.pos[2]
    /\ \E q \in pawnTargets(board, queried.pos) : q[2] = queried.pos[2]
    /\ \E q \in Pos : /\ Abs(q[1] - queried.pos[1]) = 1
                       /\ Abs(q[2] - queried.pos[2]) = 1
                       /\ Sq(board, q).color = queried.color

\* the king goes two files along its row
kingGoesTwoFiles(b, from, to) ==
    Sq(b, from).type = "k" /\ Abs(to[2] - from[2]) = 2

\* the pawn goes to an empty square of a neighbouring file
pawnTakesInPassing(b, from, to) ==
    Sq(b, from).type = "p" /\ to[2] # from[2] /\ IsNull(Sq(b, to))

\* the squares the move from -> to on b concerns
squaresConcerned(b, from, to) ==
    {from, to}
    \cup (IF kingGoesTwoFiles(b, from, to)
          THEN {<<from[1], IF to[2] > from[2] THEN 7 ELSE 0>>,
                <<from[1], IF to[2] > from[2] THEN 5 ELSE 3>>}
          ELSE {})
    \cup (IF pawnTakesInPassing(b, from, to) THEN {<<from[1], to[2]>>} ELSE {})

\* the number of pieces of one type and colour on b
count(b, type, color) ==
    Cardinality({p \in Pos : Sq(b, p).type = type /\ Sq(b, p).color = color})

\* nb is b after the move from -> to and nothing else
onlyMoved(b, nb, from, to) ==
    /\ IsNull(Sq(nb, from))
    /\ sameKind(Sq(nb, to), Sq(b, from))
    /\ Sq(nb, to).hasMoved = "true"
    /\ kingGoesTwoFiles(b, from, to) =>
          LET corner == <<from[1], IF to[2] > from[2] THEN 7 ELSE 0>>
              post == <<from[1], IF to[2] > from[2] THEN 5 ELSE 3>>
          IN /\ IsNull(Sq(nb, corner))
             /\ Sq(nb, post).type = "r"
             /\ sameKind(Sq(nb, post), Sq(b, corner))
    /\ pawnTakesInPassing(b, from, to) => IsNull(Sq(nb, <<from[1], to[2]>>))
    /\ \A p \in Pos \ squaresConcerned(b, from, to) :
          /\ sameKind(Sq(nb, p), Sq(b, p))
          /\ Sq(nb, p).hasMoved = Sq(b, p).hasMoved
    /\ \A type \in PieceType, color \in Color : count(nb, type, color) <= count(b, type, color)

\* C32: a committed non-promotion move changes only the squares it concerns:
\* the origin becomes empty, the destination holds the moved piece with
\* hasMoved = true, castling moves the rook from its corner to its post-castle
\* square, en passant empties the captured pawn's square, every other square
\* keeps its piece, colour and hasMoved flag, and no piece is duplicated.
C32_MoveChangesOnlyItsSquares ==
    [][(lastOp' \in {"makeMove", "makeMoveThrew"} /\ Len(committed') > Len(committed)) =>
          onlyMoved(board, board', committed'[Len(committed')].from,
                    committed'[Len(committed')].to)]_vars

\* makeMove has committed an en passant capture
C32_EnPassantCommitted ==
    /\ lastOp = "makeMove"
    /\ Len(committed) > 0
    /\ pawnTakesInPassing(committed[Len(committed)].board,
                          committed[Len(committed)].from, committed[Len(committed)].to)
    /\ ~IsNull(Sq(committed[Len(committed)].board,
                  <<committed[Len(committed)].from[1], committed[Len(committed)].to[2]>>))
    /\ Sq(board, committed[Len(committed)].to).type = "p"

\* C33: the board rebuilt for a row of the move history equals the game
\* board as it stood right after that row's move was committed: when makeMove
\* appends a record, the board rebuilt for the new last row is the new board,
\* and a click on the last row right after the move leaves the board as it is.
C33_ReplayEqualsGameBoard ==
    [][/\ (lastOp' = "makeMove" /\ Len(moveHistory') > Len(moveHistory)) =>
             sameBoard(boardCopy(INITIAL_BOARD', moveHistory', Len(moveHistory') - 1),
                       board')
       /\ (lastOp' = "historyRowClick"
             /\ board' = boardCopy(INITIAL_BOARD, moveHistory, Len(moveHistory) - 1)) =>
             sameBoard(board', board)]_vars

\* the castling destinations getRawPieceMoves adds for the piece on pos
rawCastlingDestinations(b, pos) ==
    IF Sq(b, pos).type = "k" THEN castlingMoves(pos[1], Sq(b, pos), b) ELSE {}

====
